---- MODULE Spec2Model ----
(***************************************************************************)
(* Model of the proxy pool of golibs: package proxypool (ProxyItem and     *)
(* ProxyPool).  Time is a discrete clock `now` (seconds); a region of code *)
(* that runs with poolMu held is one atomic step; refreshMu, which is held *)
(* across the supplier call and the following AddProxy calls, is explicit. *)
(* The pool's configuration is fixed by New and not changed afterwards.    *)
(***************************************************************************)
EXTENDS Integers, Sequences, FiniteSets, TLC

\* ------------------------------------------------------------------ bounds
MaxTime == 1      \* the clock runs from 0 to MaxTime
MaxCursor == 2    \* no new Get once roundRobinIdx has reached this
MaxBatch == 1     \* longest batch a supplier call returns
MaxAsync == 1     \* goroutines started by `go p.Refresh()` alive at a time
MaxLimit == 1     \* the configured use-limit
MaxTTL == 1       \* the configured time-to-live, in seconds
MinSize == 2      \* the configured minimum healthy size
MaxCallers == 3   \* concurrent callers of IncrementUseCount on one entry
MaxEntryLimit == 3 \* largest use-limit of that entry
MaxRemaining == 2 \* largest use-limit of the entry of a one-entry pool
MaxCalls == 3     \* Get calls made on the one-entry pool
MaxRounds == 2    \* rounds of Get calls over a pool without churn
MaxCandidates == 2 \* longest batch of a supplier that returns several
MaxGiven == 2     \* largest value of a numeric option given to New
MaxDefaultCalls == 2 \* calls of Default or InitDefault made by one thread
MaxResets == 1    \* calls of ResetDefault
MaxProxyCalls == 1 \* calls of GetProxy made by one thread
MaxPassword == 3  \* longest password given to SetAuthProxy
MaxTasks == 2     \* tasks given to Submit
MaxWorkers == 2   \* largest size given to New and Resize of the worker pool
MaxRequests == 2  \* requests one thread makes on the HTTP client
MaxSets == 1      \* calls of SetTimeout and SetMaxRedirects
MaxSeconds == 1   \* largest per-request Timeout, in seconds

\* --------------------------------------------------------------- constants
ZeroTime == -1    \* the zero time.Time of a lastUseTime never written
maxRetry == 10
QueueCap == 10000 \* capacity of the worker pool's taskQueue

Threads == {"t1", "t2"}
Goroutines == {"g" \o ToString(i) : i \in 1..MaxAsync}
Agents == Threads \cup Goroutines
Callers == {"c" \o ToString(i) : i \in 1..MaxCallers}

\* Hosts and ports are strings: host "a:b" with port "c" and host "a" with
\* port "b:c" are two endpoints that both format to "a:b:c".
Addrs ==
    {[IP |-> "a", Port |-> "c"], [IP |-> "a", Port |-> "b:c"],
     [IP |-> "a:b", Port |-> "c"]}

RECURSIVE SeqsUpTo(_, _)
SeqsUpTo(S, n) ==
    IF n = 0 THEN {<<>>}
    ELSE LET shorter == SeqsUpTo(S, n - 1)
         IN  shorter \cup {Append(s, x) : s \in shorter, x \in S}

\* What a supplier call may return: a batch of addresses.
Batches == SeqsUpTo(Addrs, MaxBatch)

VARIABLES
    proxies,        \* ProxyPool.proxies: sequence of ProxyItem records
    roundRobinIdx,  \* ProxyPool.roundRobinIdx
    refreshMu,      \* ProxyPool.refreshMu is held
    cfg,            \* apiURL, fetchFunc, onRefresh and onProxyGet (whether
                    \* one is set),
                    \* maxUseCount, expireSeconds, minPoolSize
    now,            \* time.Now()
    lc,             \* per thread / goroutine: position in its call, locals
    act,            \* the step taken last, and what it returned
    log,            \* the results of the Get calls, when they are recorded
                    \* (on); whether refreshes and the first entry a Get
                    \* returned are tracked (track), and that entry (held)

    entry,          \* one ProxyItem that several callers claim uses of
    cl,             \* per caller of IncrementUseCount: position and locals

    defaultPool,    \* the package's defaultPool: <<>> (nil) or <<a pool>>
    once,           \* the package's once: done, and whether its mutex is held
    dcall,          \* per thread: its call of Default or InitDefault
    built,          \* pools built by these calls, and calls of ResetDefault

    router,         \* one Proxy (request.go): its fields; pool tells whether
                    \* p.pool is set, and the pool is then the one above
    rc,             \* per thread: its call of GetProxy

    wp,             \* one worker Pool (part_004, lines 403-565): its fields,
                    \* the dispatcher's position, the tasks and the callers
    hc              \* one HTTP Client: its fields and, per thread, its
                    \* request

\* The variables of the entry on its own, which the pool's steps leave
\* alone.
entryVars == <<entry, cl>>

\* The variables of the default pool's accessors.
singletonVars == <<defaultPool, once, dcall, built>>

\* The variables of the Proxy.
routerVars == <<router, rc>>

\* The variables of the worker Pool and of the HTTP Client.
workVars == <<wp, hc>>

vars ==
    <<proxies, roundRobinIdx, refreshMu, cfg, now, lc, act, log, entry, cl,
      defaultPool, once, dcall, built, router, rc, wp, hc>>

\* ------------------------------------------------------------- ProxyItem

NewProxyItemWithConfig(ip, port, maxUseCount, expireSeconds) ==
    [IP |-> ip, Port |-> port, usedCount |-> 0, maxUseCount |-> maxUseCount,
     expireTime |-> now + expireSeconds, createTime |-> now,
     lastUseTime |-> ZeroTime]

String(p) == p.IP \o ":" \o p.Port

\* IsAvailable with the expiry instant still counted as before it.
IsAvailableInclusive(p) == now <= p.expireTime /\ p.usedCount < p.maxUseCount
\* IsAvailable without the expiry test.
IsAvailableNoExpiry(p) == p.usedCount < p.maxUseCount
IsAvailable(p) == now < p.expireTime /\ p.usedCount < p.maxUseCount

IsExpired(p) == now > p.expireTime

IsMaxUsed(p) == p.usedCount >= p.maxUseCount

\* IncrementUseCount counting a use twice.
IncrementUseCountTwice(p) ==
    IF p.usedCount >= p.maxUseCount
    THEN [ok |-> FALSE, item |-> p]
    ELSE [ok |-> TRUE,
          item |-> [p EXCEPT !.usedCount = @ + 2, !.lastUseTime = now]]
\* IncrementUseCount returning true without counting the use.
IncrementUseCountNoStore(p) ==
    IF p.usedCount >= p.maxUseCount
    THEN [ok |-> FALSE, item |-> p]
    ELSE [ok |-> TRUE, item |-> [p EXCEPT !.lastUseTime = now]]
\* IncrementUseCount refusing the last use the limit allows.
IncrementUseCountEarly(p) ==
    IF p.usedCount + 1 >= p.maxUseCount
    THEN [ok |-> FALSE, item |-> p]
    ELSE [ok |-> TRUE,
          item |-> [p EXCEPT !.usedCount = @ + 1, !.lastUseTime = now]]
\* IncrementUseCount with no concurrent writer of usedCount, as under
\* poolMu in Get: the load and the compare-and-swap succeed in one pass.
IncrementUseCount(p) ==
    IF p.usedCount >= p.maxUseCount
    THEN [ok |-> FALSE, item |-> p]
    ELSE [ok |-> TRUE,
          item |-> [p EXCEPT !.usedCount = @ + 1, !.lastUseTime = now]]

\* ------------------------------------------------------------- ProxyPool

\* New taking the numeric options as given.
NewAsGiven(c) ==
    [apiURL |-> c.apiURL, fetchFunc |-> c.fetchFunc,
     onRefresh |-> c.onRefresh,
     onProxyGet |-> c.onProxyGet, maxUseCount |-> c.maxUseCount,
     expireSeconds |-> c.expireSeconds, minPoolSize |-> c.minPoolSize]
\* New, lines 57-78: the pool's configuration for Config c.
New(c) ==
    [apiURL |-> c.apiURL, fetchFunc |-> c.fetchFunc,
     onRefresh |-> c.onRefresh,
     onProxyGet |-> c.onProxyGet,
     maxUseCount |-> IF c.maxUseCount <= 0 THEN 5 ELSE c.maxUseCount,
     expireSeconds |-> IF c.expireSeconds <= 0 THEN 180 ELSE c.expireSeconds,
     minPoolSize |-> IF c.minPoolSize <= 0 THEN 3 ELSE c.minPoolSize]

\* A compaction that tests the expiry only.
cleanupExpired(ps) == SelectSeq(ps, LAMBDA p : now < p.expireTime)

cleanupUnsafe(ps) == SelectSeq(ps, IsAvailable)

HasKey(ps, key) == \E i \in 1..Len(ps) : String(ps[i]) = key

\* AddProxy without the search for an entry with the same key.
AddProxyNoCheck(ps, ip, port) ==
    [ok |-> TRUE,
     proxies |-> Append(ps, NewProxyItemWithConfig(ip, port,
                                cfg.maxUseCount, cfg.expireSeconds))]
\* AddProxy on collection ps: the result and the new collection.
AddProxy(ps, ip, port) ==
    IF HasKey(ps, ip \o ":" \o port)
    THEN [ok |-> FALSE, proxies |-> ps]
    ELSE [ok |-> TRUE,
          proxies |-> Append(ps, NewProxyItemWithConfig(ip, port,
                                     cfg.maxUseCount, cfg.expireSeconds))]

\* The first index of ps whose entry formats to key, 0 if none.
IndexOfKey(ps, key) ==
    IF HasKey(ps, key)
    THEN CHOOSE i \in 1..Len(ps) :
            /\ String(ps[i]) = key
            /\ \A j \in 1..(i - 1) : String(ps[j]) # key
    ELSE 0

RemoveAt(ps, i) == SubSeq(ps, 1, i - 1) \o SubSeq(ps, i + 1, Len(ps))

RemoveByString(ps, proxyStr) ==
    LET i == IndexOfKey(ps, proxyStr)
    IN  IF i = 0 THEN [ok |-> FALSE, proxies |-> ps]
        ELSE [ok |-> TRUE, proxies |-> RemoveAt(ps, i)]

Remove(ps, ip, port) == RemoveByString(ps, ip \o ":" \o port)

\* The indices of ps, in order, that pass the availability filter of Get.
AvailableIdx(ps) ==
    SelectSeq([i \in 1..Len(ps) |-> i], LAMBDA i : IsAvailable(ps[i]))

NoItem == <<>>

\* The selection of Get with a cursor that does not advance.
GetSelectNoAdvance(ps, rr) ==
    LET available == AvailableIdx(ps)
    IN  IF Len(available) = 0
        THEN [err |-> "ErrNoAvailableProxy", item |-> NoItem,
              proxies |-> ps, idx |-> rr]
        ELSE LET i == available[(rr % Len(available)) + 1]
                 inc == IncrementUseCount(ps[i])
             IN  IF inc.ok
                 THEN [err |-> "nil", item |-> <<inc.item>>,
                       proxies |-> [ps EXCEPT ![i] = inc.item],
                       idx |-> rr]
                 ELSE [err |-> "ErrNoAvailableProxy", item |-> NoItem,
                       proxies |-> ps, idx |-> rr]
\* A selection that advances the cursor only when the claim succeeds.
GetClaimAdvanceOnSuccess(available, ps, rr) ==
    IF Len(available) = 0
    THEN [err |-> "ErrNoAvailableProxy", item |-> NoItem,
          proxies |-> ps, idx |-> rr]
    ELSE LET i == available[(rr % Len(available)) + 1]
             inc == IncrementUseCount(ps[i])
         IN  IF inc.ok
             THEN [err |-> "nil", item |-> <<inc.item>>,
                   proxies |-> [ps EXCEPT ![i] = inc.item],
                   idx |-> rr + 1]
             ELSE [err |-> "ErrNoAvailableProxy", item |-> NoItem,
                   proxies |-> ps, idx |-> rr]

\* Get, lines 224-241, with poolMu held: round-robin selection among the
\* entries at the indices available, which the filter loop found, and the
\* claim of one use of the chosen entry of ps.  The chosen entry is updated
\* in place (the collection holds pointers).
GetClaim(available, ps, rr) ==
    IF Len(available) = 0
    THEN [err |-> "ErrNoAvailableProxy", item |-> NoItem,
          proxies |-> ps, idx |-> rr]
    ELSE LET i == available[(rr % Len(available)) + 1]
             inc == IncrementUseCount(ps[i])
         IN  IF inc.ok
             THEN [err |-> "nil", item |-> <<inc.item>>,
                   proxies |-> [ps EXCEPT ![i] = inc.item],
                   idx |-> rr + 1]
             ELSE [err |-> "ErrNoAvailableProxy", item |-> NoItem,
                   proxies |-> ps, idx |-> rr + 1]

\* The second half of Get, lines 216-241, run with poolMu held: the filter
\* loop, then the selection and the claim.
GetSelect(ps, rr) == GetClaim(AvailableIdx(ps), ps, rr)

\* ------------------------------------------------ threads and goroutines

\* A thread or goroutine that is in no call.  Inside Refresh, batch is
\* what is left of the supplier's result and count the insertions so far;
\* all and before keep, when refreshes are tracked, the whole result and the
\* collection as it was when the supplier returned.  Inside GetStats, stats
\* is the Stats value so far and i the number of entries the loop has
\* visited.
NoStats == [Total |-> 0, Available |-> 0, Expired |-> 0, MaxUsed |-> 0]

Idle == [pc |-> "idle", op |-> "none", batch |-> <<>>, count |-> 0,
         all |-> <<>>, before |-> <<>>, stats |-> NoStats, i |-> 0]

\* poolMu is an RWMutex.  Every region that holds it for writing is one
\* step; GetStats holds it for reading over several steps, and while a
\* thread does, no region that needs it for writing can start.
ReadLockedNever == FALSE

ReadLocked == \E t \in Threads : lc[t].pc = "stats"

\* The step taken last: its name, who took it and, when the step returned
\* from a call of the pool, what the call returned (ret: the operation that
\* returned, "none" when none did).  cb holds the arguments of the call of
\* onRefresh the step made, if it made one, and got the entry the step
\* passed to onProxyGet, if it called it.  solo is the thread that is in the
\* synchronous refresh of Get, found refreshMu free when it released poolMu,
\* and since then no other thread or goroutine has taken a step.
Solo(who) == IF act.solo = who THEN who ELSE "none"

Act(name, who) ==
    [name |-> name, who |-> who, ret |-> "none", ok |-> FALSE, err |-> "nil",
     item |-> NoItem, n |-> 0, cb |-> <<>>, got |-> <<>>, solo |-> Solo(who)]

Returned(name, who, op, ok, err, item, n) ==
    [name |-> name, who |-> who, ret |-> op, ok |-> ok, err |-> err,
     item |-> item, n |-> n, cb |-> <<>>, got |-> <<>>, solo |-> Solo(who)]

\* The record of the Get calls' results: the returned entry's "ip:port", or
\* the error.
Logged(s) ==
    IF log.on
    THEN [log EXCEPT !.gets = Append(@, IF s.err = "nil"
                                        THEN String(s.item[1]) ELSE s.err)]
    ELSE log

\* The *ProxyItem the first successful Get returned, when tracked: the key
\* of the entry it points to, the use-count it had when Get returned, and
\* whether the collection still holds that entry (live); obj is the entry
\* from the moment the collection dropped it.
Handle(e) ==
    [key |-> String(e), seen |-> e.usedCount, live |-> TRUE, obj |-> e]

\* The record l after the collection went from proxies to ps: an entry
\* pointed to that ps no longer holds lives on outside the collection.
Detached(l, ps) ==
    IF l.track /\ l.held # <<>> /\ l.held[1].live /\ ~HasKey(ps, l.held[1].key)
    THEN [l EXCEPT !.held[1].live = FALSE,
                   !.held[1].obj = proxies[IndexOfKey(proxies, l.held[1].key)]]
    ELSE l

\* The record l after Get returned s.
Handed(l, s) ==
    IF l.track /\ l.held = <<>> /\ s.err = "nil"
    THEN [l EXCEPT !.held = <<Handle(s.item[1])>>]
    ELSE l

\* Get, lines 234-238, for the selection s: onProxyGet is never called.
OnProxyGetNever(s) == <<>>

\* Get, lines 234-238, for the selection s: when the use was claimed and
\* onProxyGet is set, it is called with the entry that Get returns.
OnProxyGet(s) == IF s.err = "nil" /\ cfg.onProxyGet THEN s.item ELSE <<>>

\* A Refresh that Get called stays at its TryLock until refreshMu is free.
RefreshReturnWaits(l) ==
    IF l.op = "Get" THEN [Idle EXCEPT !.pc = "refresh", !.op = "Get"] ELSE Idle

\* Refresh returns to whoever called it: Get ignores the result and goes on
\* to re-take poolMu, a goroutine ends, a direct caller is back in no call.
RefreshReturn(l) ==
    IF l.op = "Get" THEN [Idle EXCEPT !.pc = "relock", !.op = "Get"] ELSE Idle

\* The step by which agent a, whose local state is l, returns err from
\* Refresh.
RefreshAct(name, a, l, err) ==
    IF l.op = "Refresh"
    THEN Returned(name, a, "Refresh", err = "nil", err, NoItem, 0)
    ELSE [Act(name, a) EXCEPT !.err = err]

\* Refresh, lines 154-156 and 168-170: onRefresh is called when one is set.
OnRefresh(count, err) ==
    IF cfg.onRefresh THEN <<[count |-> count, err |-> err]>> ELSE <<>>

\* The configuration check with "or" for "and".
UnconfiguredEither == cfg.apiURL = "" \/ cfg.fetchFunc = "nil"
\* Refresh, line 134: neither an API URL nor a fetch function is set.
Unconfigured == cfg.apiURL = "" /\ cfg.fetchFunc = "nil"

\* A TryLock that always succeeds, and one that succeeds when the lock is
\* held.
TryLockAlways == TRUE
TryLockInverted == refreshMu
\* refreshMu.TryLock() succeeds when refreshMu is free.
TryLock == ~refreshMu

\* Refresh, lines 133-142, run by agent a whose local state is l: the
\* configuration check and the TryLock of refreshMu.
RefreshEnter(a, l, name) ==
    /\ UNCHANGED <<proxies, roundRobinIdx, cfg, now, log, entryVars, singletonVars, workVars,
                   routerVars>>
    /\ IF Unconfigured
       THEN /\ lc' = [lc EXCEPT ![a] = RefreshReturn(l)]
            /\ act' = RefreshAct(name, a, l, "ErrAPIURLEmpty")
            /\ UNCHANGED refreshMu
       ELSE IF ~TryLock
       THEN /\ lc' = [lc EXCEPT ![a] = RefreshReturn(l)]
            /\ act' = [RefreshAct(name, a, l, "nil") EXCEPT !.n = 1]
            /\ UNCHANGED refreshMu
       ELSE /\ lc' = [lc EXCEPT ![a] = [l EXCEPT !.pc = "fetch"]]
            /\ act' = Act(name, a)
            /\ refreshMu' = TRUE

\* A thread calls Refresh directly.
Refresh(t) ==
    /\ lc[t].pc = "idle"
    /\ RefreshEnter(t, [Idle EXCEPT !.op = "Refresh"], "Refresh")

\* Refresh called from Get (synchronously) or started by `go p.Refresh()`.
RefreshStart(a) ==
    /\ lc[a].pc = "refresh"
    /\ RefreshEnter(a, lc[a], "RefreshStart")

\* What the supplier call of the configured kind may answer.
FetchResults ==
    CASE cfg.fetchFunc = "nil" -> {[err |-> "ErrNoFetchFunc", batch |-> <<>>]}
      [] cfg.fetchFunc = "fails" -> {[err |-> "ErrFetch", batch |-> <<>>]}
      [] cfg.fetchFunc = "empty" -> {[err |-> "nil", batch |-> <<>>]}
      [] cfg.fetchFunc = "yields" ->
            {[err |-> "nil", batch |-> b] : b \in Batches \ {<<>>}}
      [] cfg.fetchFunc = "several" ->
            {[err |-> "nil", batch |-> b] :
                b \in SeqsUpTo(Addrs, MaxCandidates)}
      [] OTHER ->
            {[err |-> "ErrFetch", batch |-> <<>>]}
            \cup {[err |-> "nil", batch |-> b] : b \in Batches}

\* Refresh, lines 160-161: the agent whose local state is l has the
\* supplier's result and starts the AddProxy loop with count 0.
Fetched(l, batch) ==
    [l EXCEPT !.pc = "add", !.batch = batch, !.count = 0,
              !.all = IF log.track THEN batch ELSE <<>>,
              !.before = IF log.track THEN proxies ELSE <<>>]

\* The return of the supplier call with an error emptying the collection.
FetchReturnClears(a) ==
    /\ lc[a].pc = "fetch"
    /\ UNCHANGED <<roundRobinIdx, cfg, now, log, entryVars, singletonVars, workVars,
                   routerVars>>
    /\ \E r \in FetchResults :
          IF r.err # "nil"
          THEN /\ lc' = [lc EXCEPT ![a] = RefreshReturn(lc[a])]
               /\ act' = [RefreshAct("FetchReturn", a, lc[a], r.err) EXCEPT
                             !.cb = OnRefresh(0, r.err)]
               /\ refreshMu' = FALSE
               /\ proxies' = <<>>
          ELSE /\ lc' = [lc EXCEPT ![a] = Fetched(@, r.batch)]
               /\ act' = Act("FetchReturn", a)
               /\ UNCHANGED <<refreshMu, proxies>>

\* Refresh, lines 144-158: the supplier call returns; on an error refreshMu
\* is released and the error returned.
FetchReturn(a) ==
    /\ lc[a].pc = "fetch"
    /\ UNCHANGED <<proxies, roundRobinIdx, cfg, now, log, entryVars, singletonVars, workVars,
                   routerVars>>
    /\ \E r \in FetchResults :
          IF r.err # "nil"
          THEN /\ lc' = [lc EXCEPT ![a] = RefreshReturn(lc[a])]
               /\ act' = [RefreshAct("FetchReturn", a, lc[a], r.err) EXCEPT
                             !.cb = OnRefresh(0, r.err)]
               /\ refreshMu' = FALSE
          ELSE /\ lc' = [lc EXCEPT ![a] = Fetched(@, r.batch)]
               /\ act' = Act("FetchReturn", a)
               /\ UNCHANGED refreshMu

\* Refresh, lines 160-173: one AddProxy per candidate, then the release of
\* refreshMu and the return.
RefreshAdd(a) ==
    /\ lc[a].pc = "add"
    /\ lc[a].batch # <<>> => ~ReadLocked
    /\ UNCHANGED <<roundRobinIdx, cfg, now, log, entryVars, singletonVars, workVars,
                   routerVars>>
    /\ IF lc[a].batch = <<>>
       THEN /\ lc' = [lc EXCEPT ![a] = RefreshReturn(lc[a])]
            /\ act' = [RefreshAct("RefreshAdd", a, lc[a], "nil") EXCEPT
                          !.cb = OnRefresh(lc[a].count, "nil")]
            /\ refreshMu' = FALSE
            /\ UNCHANGED proxies
       ELSE LET addr == Head(lc[a].batch)
                r == AddProxy(proxies, addr.IP, addr.Port)
            IN  /\ proxies' = r.proxies
                /\ lc' = [lc EXCEPT ![a] =
                            [@ EXCEPT !.batch = Tail(@),
                                      !.count = IF r.ok THEN @ + 1 ELSE @]]
                /\ act' = Act("RefreshAdd", a)
                /\ UNCHANGED refreshMu

FreeGoroutine == CHOOSE g \in Goroutines : lc[g].pc = "idle"

\* The size test of Get with <= for <.
NeedsAsyncLE(ps) == Len(ps) <= cfg.minPoolSize
\* Get, line 210: the size is below the minimum.
NeedsAsync(ps) == Len(ps) < cfg.minPoolSize

\* Get, lines 199-242.  With the collection empty after the cleanup the
\* thread releases poolMu and goes to call Refresh; otherwise it may start
\* a goroutine and selects without releasing poolMu.
GetLocked(t) ==
    /\ lc[t].pc = "idle"
    /\ ~ReadLocked
    /\ UNCHANGED <<refreshMu, cfg, now, entryVars, singletonVars, workVars>>
    /\ LET ps == cleanupUnsafe(proxies)
       IN  IF Len(ps) = 0
           THEN /\ proxies' = ps
                /\ lc' = [lc EXCEPT ![t] = [Idle EXCEPT !.pc = "refresh",
                                                        !.op = "Get"]]
                /\ act' = [Act("Get", t) EXCEPT
                              !.solo = IF refreshMu THEN "none" ELSE t]
                /\ log' = Detached(log, ps)
                /\ UNCHANGED roundRobinIdx
           ELSE LET s == GetSelect(ps, roundRobinIdx)
                IN  /\ proxies' = s.proxies
                    /\ roundRobinIdx' = s.idx
                    /\ act' = [Returned("Get", t, "Get", s.err = "nil",
                                        s.err, s.item, 0)
                                 EXCEPT !.got = OnProxyGet(s)]
                    /\ log' = Handed(Detached(Logged(s), ps), s)
                    /\ IF NeedsAsync(ps)
                       THEN /\ \E g \in Goroutines : lc[g].pc = "idle"
                            /\ lc' = [lc EXCEPT ![FreeGoroutine] =
                                           [Idle EXCEPT !.pc = "refresh",
                                                        !.op = "go"]]
                       ELSE UNCHANGED lc

\* Get, called on the pool directly.
Get(t) == GetLocked(t) /\ UNCHANGED routerVars

\* Get, lines 209-242, after the synchronous Refresh has returned.
GetRelocked(t) ==
    /\ lc[t].pc = "relock"
    /\ ~ReadLocked
    /\ UNCHANGED <<refreshMu, cfg, now, entryVars, singletonVars, workVars>>
    /\ LET s == GetSelect(proxies, roundRobinIdx)
       IN  /\ proxies' = s.proxies
           /\ roundRobinIdx' = s.idx
           /\ lc' = [lc EXCEPT ![t] = Idle]
           /\ act' = [Returned("GetAfterRefresh", t, "Get", s.err = "nil",
                               s.err, s.item, 0)
                        EXCEPT !.got = OnProxyGet(s)]
           /\ log' = Handed(Logged(s), s)

GetAfterRefresh(t) == GetRelocked(t) /\ UNCHANGED routerVars

AddProxyCall(t) ==
    /\ lc[t].pc = "idle"
    /\ ~ReadLocked
    /\ UNCHANGED <<roundRobinIdx, refreshMu, cfg, now, lc, log, entryVars, singletonVars, workVars,
                   routerVars>>
    /\ \E addr \in Addrs :
          LET r == AddProxy(proxies, addr.IP, addr.Port)
          IN  /\ proxies' = r.proxies
              /\ act' = Returned("AddProxy", t, "AddProxy", r.ok, "nil",
                                 <<addr>>, 0)

RemoveCall(t) ==
    /\ lc[t].pc = "idle"
    /\ ~ReadLocked
    /\ UNCHANGED <<roundRobinIdx, refreshMu, cfg, now, lc, entryVars,
                   singletonVars, workVars,
                   routerVars>>
    /\ \E addr \in Addrs :
          LET r == Remove(proxies, addr.IP, addr.Port)
          IN  /\ proxies' = r.proxies
              /\ log' = Detached(log, r.proxies)
              /\ act' = Returned("Remove", t, "Remove", r.ok, "nil",
                                 <<addr>>, 0)

Cleanup(t) ==
    /\ lc[t].pc = "idle"
    /\ ~ReadLocked
    /\ UNCHANGED <<roundRobinIdx, refreshMu, cfg, now, lc, entryVars,
                   singletonVars, workVars,
                   routerVars>>
    /\ proxies' = cleanupUnsafe(proxies)
    /\ log' = Detached(log, cleanupUnsafe(proxies))
    /\ act' = Returned("Cleanup", t, "Cleanup", TRUE, "nil", NoItem,
                       Len(proxies) - Len(cleanupUnsafe(proxies)))

Clear(t) ==
    /\ lc[t].pc = "idle"
    /\ ~ReadLocked
    /\ UNCHANGED <<roundRobinIdx, refreshMu, cfg, now, lc, entryVars,
                   singletonVars, workVars,
                   routerVars>>
    /\ proxies' = <<>>
    /\ log' = Detached(log, <<>>)
    /\ act' = Returned("Clear", t, "Clear", TRUE, "nil", NoItem, 0)

\* The clock advances.
Tick ==
    /\ now < MaxTime
    /\ now' = now + 1
    /\ act' = [Act("Tick", "clock") EXCEPT !.solo = act.solo]
    /\ UNCHANGED <<proxies, roundRobinIdx, refreshMu, cfg, lc, log, entryVars, singletonVars, workVars,
                   routerVars>>

\* ----------------------------------------------------------- the pool

\* A pool is used while its cursor is below the bound.
GetCall(t) == roundRobinIdx < MaxCursor /\ Get(t)

Config(apiURL, fetchFunc) ==
    [apiURL |-> apiURL, fetchFunc |-> fetchFunc, onRefresh |-> TRUE,
     onProxyGet |-> TRUE,
     maxUseCount |-> MaxLimit,
     expireSeconds |-> MaxTTL, minPoolSize |-> MinSize]

NoLog ==
    [on |-> FALSE, gets |-> <<>>, track |-> FALSE, held |-> <<>>,
     auth |-> <<>>]

NoEntry == [IP |-> "", Port |-> "", usedCount |-> 0, maxUseCount |-> 0,
            expireTime |-> 0, createTime |-> 0, lastUseTime |-> ZeroTime]

\* No step has been taken since New.
NoAct ==
    [name |-> "New", who |-> "main", ret |-> "none", ok |-> FALSE,
     err |-> "nil", item |-> NoItem, n |-> 0, cb |-> <<>>, got |-> <<>>, solo |-> "none"]

\* The state New leaves, for configuration c, but for the collection and
\* the cursor.
InitPool(c) ==
    /\ refreshMu = FALSE
    /\ cfg = New(c)
    /\ now = 0
    /\ lc = [a \in Agents |-> Idle]
    /\ act = NoAct

\* No call of Default or InitDefault has been made.
NoCall == [pc |-> "idle", op |-> "none", arg |-> <<>>, ret |-> <<>>, calls |-> 0]

NoDefault ==
    /\ defaultPool = <<>>
    /\ once = [done |-> FALSE, m |-> FALSE]
    /\ dcall = [t \in Threads |-> NoCall]
    /\ built = [pools |-> 0, resets |-> 0]

\* NewProxy, request.go lines 373-381.  Strings of the credentialed
\* endpoint are sequences of characters.
NewProxy ==
    [mode |-> "ModeNone", proxyType |-> "http", pool |-> FALSE,
     poolAPIURL |-> "", poolMaxUseCount |-> 5, poolExpireSeconds |-> 180,
     poolMinSize |-> 3, authHost |-> <<>>, authPort |-> <<>>,
     authUsername |-> <<>>, authPassword |-> <<>>]

\* A thread that is in no call of GetProxy.
NoGetProxy ==
    [pc |-> "idle", mode |-> "ModeNone", proxyType |-> "http", i |-> 0,
     slept |-> 0, item |-> <<>>, calls |-> 0]

\* A Proxy that nobody uses.
NoRouter ==
    /\ router = NewProxy
    /\ rc = [t \in Threads |-> NoGetProxy]

\* The tasks given to Submit, and the threads that call Stop.
Tasks == 1..MaxTasks
Stoppers == {"s1", "s2"}

\* A task nobody has submitted (runs: the times it was executed; late: its
\* worker was started after Stop had returned; lateTake: the dispatcher
\* received it after Stop had returned; panicked: its execution ended
\* in a panic; afterStop: Submit was called
\* after Stop had returned), a thread in no call of Stop, and a thread
\* in no call of WaitIdle (owed: the tasks Submit had accepted when it
\* called WaitIdle).
NoTask ==
    [pc |-> "new", accepted |-> FALSE, runs |-> 0, late |-> FALSE,
     lateTake |-> FALSE, afterStop |-> FALSE, panicked |-> FALSE]
NoStop == [pc |-> "idle", won |-> FALSE]
NoWaitIdle == [pc |-> "idle", owed |-> {}]

\* worker New, part_004 lines 419-438: the Pool with its dispatcher
\* started.  stopReturned: the call of Stop that set stopped has returned;
\* shrunk: Resize was called with a size below activeCount.
NewPool(maxWorkers) ==
    [maxWorkers |-> IF maxWorkers <= 0 THEN 1 ELSE maxWorkers,
     activeCount |-> 0, stopped |-> FALSE, cancelled |-> FALSE,
     taskQueue |-> <<>>,
     dispatcher |-> [pc |-> "select", task |-> 0],
     task |-> [k \in Tasks |-> NoTask],
     stop |-> [c \in Stoppers |-> NoStop],
     wait |-> NoWaitIdle,
     stopReturned |-> FALSE,
     shrunk |-> FALSE]

\* A thread that is in no request.
NoRequest ==
    [pc |-> "idle", opts |-> [Timeout |-> 0, AllowRedirects |-> "nil"],
     originalTimeout |-> 0,
     originalRedirect |-> [kind |-> "nil", n |-> 0], calls |-> 0]

\* httpclient New, part_001 lines 31-63: c.timeout and c.maxRedirects,
\* and httpClient's Timeout (seconds) and CheckRedirect (nil).  policy is
\* the redirect policy that was configured last; sets counts the calls of
\* SetTimeout and SetMaxRedirects.
NewClient ==
    [timeout |-> 30, maxRedirects |-> 5, httpTimeout |-> 30,
     checkRedirect |-> [kind |-> "nil", n |-> 0],
     policy |-> [kind |-> "nil", n |-> 0],
     sets |-> 0,
     req |-> [t \in Threads |-> NoRequest]]

\* A worker Pool and an HTTP Client that nobody uses.
NoWork ==
    /\ wp = NewPool(1)
    /\ hc = NewClient

NoCallers ==
    /\ entry = NoEntry
    /\ cl = [c \in Callers |-> [pc |-> "idle", current |-> 0, ok |-> FALSE]]

PoolNext ==
    \/ Tick
    \/ \E t \in Threads :
          \/ GetCall(t)
          \/ GetAfterRefresh(t)
          \/ AddProxyCall(t)
          \/ Refresh(t)
          \/ RemoveCall(t)
          \/ Cleanup(t)
          \/ Clear(t)
    \/ \E a \in Agents :
          \/ RefreshStart(a)
          \/ FetchReturn(a)
          \/ RefreshAdd(a)

\* A pool whose supplier may fail or return any batch, used by two threads.
Init ==
    /\ InitPool(Config("u", "any"))
    /\ proxies = <<>>
    /\ roundRobinIdx = 0
    /\ log = NoLog
    /\ NoCallers
    /\ NoDefault
    /\ NoWork
    /\ NoRouter

Next == PoolNext

Spec == Init /\ [][Next]_vars

\* The same pool with a supplier that returns a non-empty batch on every
\* call.
InitYields ==
    /\ InitPool(Config("u", "yields"))
    /\ proxies = <<>>
    /\ roundRobinIdx = 0
    /\ log = NoLog
    /\ NoCallers
    /\ NoDefault
    /\ NoWork
    /\ NoRouter

SpecYields == InitYields /\ [][Next]_vars

\* ------------------------------------------------ one entry, many callers

poolVars == <<proxies, roundRobinIdx, refreshMu, cfg, lc, log>>

\* A load that lets a use-count equal to the limit through.
LoadAbove(c) ==
    /\ cl[c].pc \in {"idle", "load"}
    /\ IF entry.usedCount > entry.maxUseCount
       THEN cl' = [cl EXCEPT ![c] = [pc |-> "done", current |-> entry.usedCount,
                                     ok |-> FALSE]]
       ELSE cl' = [cl EXCEPT ![c] = [pc |-> "cas", current |-> entry.usedCount,
                                     ok |-> FALSE]]
    /\ act' = Act("Load", c)
    /\ UNCHANGED <<entry, now, poolVars, singletonVars, workVars,
                   routerVars>>

\* IncrementUseCount, lines 78-81: caller c loads usedCount and compares it
\* with the limit.
Load(c) ==
    /\ cl[c].pc \in {"idle", "load"}
    /\ IF entry.usedCount >= entry.maxUseCount
       THEN cl' = [cl EXCEPT ![c] = [pc |-> "done", current |-> entry.usedCount,
                                     ok |-> FALSE]]
       ELSE cl' = [cl EXCEPT ![c] = [pc |-> "cas", current |-> entry.usedCount,
                                     ok |-> FALSE]]
    /\ act' = Act("Load", c)
    /\ UNCHANGED <<entry, now, poolVars, singletonVars, workVars,
                   routerVars>>

\* A store of current + 1 that does not compare.
CompareAndSwapBlind(c) ==
    /\ cl[c].pc = "cas"
    /\ entry' = [entry EXCEPT !.usedCount = cl[c].current + 1]
    /\ cl' = [cl EXCEPT ![c] = [@ EXCEPT !.pc = "stamp", !.ok = TRUE]]
    /\ act' = Act("CompareAndSwap", c)
    /\ UNCHANGED <<now, poolVars, singletonVars, workVars,
                   routerVars>>
\* IncrementUseCount, line 82: the compare-and-swap; a caller that loses it
\* loads again.
CompareAndSwap(c) ==
    /\ cl[c].pc = "cas"
    /\ IF entry.usedCount = cl[c].current
       THEN /\ entry' = [entry EXCEPT !.usedCount = cl[c].current + 1]
            /\ cl' = [cl EXCEPT ![c] = [@ EXCEPT !.pc = "stamp", !.ok = TRUE]]
       ELSE /\ cl' = [cl EXCEPT ![c] = [@ EXCEPT !.pc = "load"]]
            /\ UNCHANGED entry
    /\ act' = Act("CompareAndSwap", c)
    /\ UNCHANGED <<now, poolVars, singletonVars, workVars,
                   routerVars>>

\* What the write of lastUseTime by caller c may leave: the write is not
\* atomic, so with another winner writing at the same time the field may
\* hold either value or a mix of the two.
StampOutcomes(c) ==
    IF \E d \in Callers \ {c} : cl[d].pc = "stamp" THEN 0..now ELSE {now}

\* IncrementUseCount, lines 83-84: the winner writes lastUseTime and
\* returns true.
Stamp(c) ==
    /\ cl[c].pc = "stamp"
    /\ \E v \in StampOutcomes(c) : entry' = [entry EXCEPT !.lastUseTime = v]
    /\ cl' = [cl EXCEPT ![c] = [@ EXCEPT !.pc = "done"]]
    /\ act' = Act("Stamp", c)
    /\ UNCHANGED <<now, poolVars, singletonVars, workVars,
                   routerVars>>

\* A fresh entry with some use-limit and some TTL (those of a pool whose
\* SetMaxUseCount and SetExpireSeconds were given them), and callers that
\* each call IncrementUseCount once, at any time.
InitEntry ==
    /\ refreshMu = FALSE
    /\ \E limit \in 0..MaxEntryLimit, ttl \in 0..MaxTTL :
          cfg = [New(Config("u", "any")) EXCEPT !.maxUseCount = limit,
                                                !.expireSeconds = ttl]
    /\ now = 0
    /\ lc = [a \in Agents |-> Idle]
    /\ act = NoAct
    /\ proxies = <<>>
    /\ roundRobinIdx = 0
    /\ log = NoLog
    /\ entry = NewProxyItemWithConfig("a", "c", cfg.maxUseCount,
                                       cfg.expireSeconds)
    /\ cl = [c \in Callers |-> [pc |-> "idle", current |-> 0, ok |-> FALSE]]
    /\ NoDefault
    /\ NoWork
    /\ NoRouter

NextEntry ==
    \/ Tick
    \/ \E c \in Callers :
          \/ Load(c)
          \/ CompareAndSwap(c)
          \/ Stamp(c)

SpecEntry == InitEntry /\ [][NextEntry]_vars

\* ------------------------------------------------------ a one-entry pool

\* The Get calls that have returned, and those that have been made.
GetsReturned == Len(log.gets)
GetsMade == GetsReturned + Cardinality({t \in Threads : lc[t].pc # "idle"})

\* Configurations whose supplier adds nothing: none configured, no fetch
\* function, one that fails, one that returns an empty batch.
Barren ==
    {<<"", "nil">>, <<"u", "nil">>, <<"u", "fails">>, <<"u", "empty">>}

\* A pool that holds one available entry, kept in `entry` as it is at the
\* start, with the Get calls recorded.
InitSingle ==
    /\ \E c \in Barren, limit \in 1..MaxRemaining :
          InitPool([Config(c[1], c[2]) EXCEPT !.maxUseCount = limit])
    /\ \E used \in 0..(cfg.maxUseCount - 1) :
          entry = [NewProxyItemWithConfig("a", "c", cfg.maxUseCount,
                                          cfg.expireSeconds)
                     EXCEPT !.usedCount = used]
    /\ proxies = <<entry>>
    /\ roundRobinIdx \in 0..MaxCursor
    /\ log = [NoLog EXCEPT !.on = TRUE]
    /\ cl = [c \in Callers |-> [pc |-> "idle", current |-> 0, ok |-> FALSE]]
    /\ NoDefault
    /\ NoWork
    /\ NoRouter

GetBounded(t) == GetsMade < MaxCalls /\ Get(t)

NextSingle ==
    \/ \E t \in Threads :
          \/ GetBounded(t)
          \/ GetAfterRefresh(t)
    \/ \E a \in Agents :
          \/ RefreshStart(a)
          \/ FetchReturn(a)
          \/ RefreshAdd(a)

SpecSingle == InitSingle /\ [][NextSingle]_vars

\* ------------------------------------------------- a pool without churn

\* Three endpoints that format to three different strings.
Steady ==
    <<[IP |-> "a", Port |-> "c"], [IP |-> "a", Port |-> "b:c"],
      [IP |-> "a:b", Port |-> "b:c"]>>

\* A pool built with the defaults of New, holding one to three fresh
\* entries, its cursor anywhere, its supplier adding nothing, with the Get
\* calls recorded.
InitSteady ==
    /\ \E c \in Barren :
          InitPool([apiURL |-> c[1], fetchFunc |-> c[2], onRefresh |-> FALSE,
                    onProxyGet |-> TRUE,
                    maxUseCount |-> 0, expireSeconds |-> 0,
                    minPoolSize |-> 0])
    /\ \E n \in 1..Len(Steady) :
          proxies = [i \in 1..n |->
                        NewProxyItemWithConfig(Steady[i].IP, Steady[i].Port,
                            cfg.maxUseCount, cfg.expireSeconds)]
    /\ roundRobinIdx \in 0..MaxCursor
    /\ log = [NoLog EXCEPT !.on = TRUE]
    /\ NoCallers
    /\ NoDefault
    /\ NoWork
    /\ NoRouter

GetRound(t) == GetsReturned < MaxRounds * Len(proxies) /\ Get(t)

NextSteady ==
    \/ \E t \in Threads : GetRound(t)
    \/ \E a \in Agents :
          \/ RefreshStart(a)
          \/ FetchReturn(a)
          \/ RefreshAdd(a)

SpecSteady == InitSteady /\ [][NextSteady]_vars

\* ------------------------------------------------------------- properties

\* The entry of collection ps that a returned entry e stands for.
SameEntry(ps, i, e) == String(ps[i]) = String(e)

\* C2: every entry a successful Get returns was available in the state in
\* which Get selected it: the clock was strictly before its expiry and its
\* use-count strictly below its limit.
C2_GetReturnsAvailable ==
    [][(act'.ret = "Get" /\ act'.ok) =>
          \E i \in 1..Len(proxies) :
             /\ SameEntry(proxies, i, act'.item[1])
             /\ now' = now
             /\ now < proxies[i].expireTime
             /\ proxies[i].usedCount < proxies[i].maxUseCount]_vars

\* A Get succeeded while an expired entry was in the collection.
C2_Witness ==
    /\ act.ret = "Get" /\ act.ok
    /\ \E i \in 1..Len(proxies) : now >= proxies[i].expireTime

\* C3: when Get succeeds, the use-count of the returned entry, which is the
\* entry the collection holds, is one more than it was before the step.
C3_GetAddsOneUse ==
    [][(act'.ret = "Get" /\ act'.ok) =>
          \E i \in 1..Len(proxies) :
             /\ SameEntry(proxies, i, act'.item[1])
             /\ act'.item[1].usedCount = proxies[i].usedCount + 1
             /\ \E j \in 1..Len(proxies') : proxies'[j] = act'.item[1]]_vars

\* A Get returned an entry on its last allowed use.
C3_Witness ==
    /\ act.ret = "Get" /\ act.ok
    /\ act.item[1].usedCount = act.item[1].maxUseCount

\* C5: no two entries of the collection have the same host and the same
\* port.
C5_NoDuplicatePair ==
    \A i, j \in 1..Len(proxies) :
        (proxies[i].IP = proxies[j].IP /\ proxies[i].Port = proxies[j].Port)
            => i = j

\* An AddProxy was refused while the collection held two entries.
C5_Witness ==
    /\ act.ret = "AddProxy" /\ ~act.ok
    /\ Len(proxies) = 2

\* C6: AddProxy(host, port) returns false, changing nothing, exactly when
\* the collection holds an entry with that host and that port; otherwise it
\* appends one entry with use-count 0 and the pool's use-limit and TTL.
C6_AddRefusesExactlyThePair ==
    [][act'.ret = "AddProxy" =>
          LET a == act'.item[1]
              held == \E i \in 1..Len(proxies) :
                         proxies[i].IP = a.IP /\ proxies[i].Port = a.Port
          IN  /\ act'.ok <=> ~held
              /\ ~act'.ok => proxies' = proxies
              /\ act'.ok =>
                    proxies' = Append(proxies,
                       [IP |-> a.IP, Port |-> a.Port, usedCount |-> 0,
                        maxUseCount |-> cfg.maxUseCount,
                        expireTime |-> now + cfg.expireSeconds,
                        createTime |-> now, lastUseTime |-> ZeroTime])]_vars

\* An AddProxy was refused although no entry of the collection has the
\* host and the port it was called with.
C6_Witness ==
    /\ act.ret = "AddProxy" /\ ~act.ok
    /\ \A i \in 1..Len(proxies) :
          proxies[i].IP # act.item[1].IP \/ proxies[i].Port # act.item[1].Port

\* The goroutines a step starts.
Launched == {g \in Goroutines : lc[g].pc = "idle" /\ lc'[g].pc = "refresh"}

\* C9: the first step of Get, after its cleanup: with the collection empty
\* it goes to call Refresh itself, before any selection, and starts no
\* goroutine; with a size below minPoolSize it starts one goroutine and
\* returns in the same step; otherwise it starts none and returns.  A thread
\* comes to call Refresh from Get only so, calls it once, and selects only
\* when that call has returned.
C9_RefreshTrigger ==
    [][\A t \in Threads :
          /\ (act'.name = "Get" /\ act'.who = t) =>
                LET n == Len(cleanupUnsafe(proxies))
                IN  /\ n = 0 =>
                          /\ lc'[t] = [Idle EXCEPT !.pc = "refresh", !.op = "Get"]
                          /\ act'.ret = "none" /\ Launched = {}
                          /\ roundRobinIdx' = roundRobinIdx
                    /\ (0 < n /\ n < cfg.minPoolSize) =>
                          /\ Cardinality(Launched) = 1
                          /\ act'.ret = "Get" /\ lc'[t] = Idle
                    /\ n >= cfg.minPoolSize =>
                          /\ Launched = {}
                          /\ act'.ret = "Get" /\ lc'[t] = Idle
          /\ (lc'[t].pc = "refresh" /\ lc[t].pc # "refresh") =>
                (act'.name = "Get" /\ act'.who = t)
          /\ (lc[t].pc = "refresh" /\ lc'[t].pc # "refresh") =>
                (act'.name = "RefreshStart" /\ lc'[t].pc \in {"fetch", "relock"})
          /\ (lc'[t].pc = "relock" /\ lc[t].pc # "relock") =>
                (lc[t].op = "Get" /\ lc[t].pc \in {"refresh", "fetch", "add"})
          /\ (act'.name = "GetAfterRefresh" /\ act'.who = t) =>
                (lc[t].pc = "relock" /\ lc'[t] = Idle)
          /\ (act'.name # "Get") => Launched = {}]_vars

\* A Get returned an entry and left a goroutine that has yet to run.
C9_Witness ==
    /\ act.name = "Get" /\ act.ok
    /\ \E g \in Goroutines : lc[g].pc = "refresh" /\ lc[g].op = "go"

\* The agents that are inside Refresh past its TryLock.
InFlight == {a \in Agents : lc[a].pc \in {"fetch", "add"}}

\* C10: at most one agent is inside Refresh past the TryLock, so at most
\* one supplier call is in progress; a Refresh entered while another agent
\* is in flight returns in that step with a nil error, without calling the
\* supplier and without changing the collection.
C10_OneRefreshAtATime ==
    /\ [](Cardinality(InFlight) <= 1)
    /\ [][\A a \in Agents :
             (/\ act'.name \in {"Refresh", "RefreshStart"}
              /\ act'.who = a
              /\ InFlight \ {a} # {}) =>
                 /\ act'.err = "nil"
                 /\ lc'[a].pc \in {"idle", "relock"}
                 /\ proxies' = proxies
                 /\ refreshMu' = refreshMu]_vars

\* A Refresh call was skipped while a supplier call was in progress.
C10_Witness ==
    /\ act.name \in {"Refresh", "RefreshStart"} /\ act.n = 1
    /\ \E a \in Agents : lc[a].pc = "fetch"

\* C8 as stated: a Get that found the pool empty, with a supplier that
\* returns entries on every call, succeeds.
C8_EmptyPoolGetSucceeds ==
    act.name = "GetAfterRefresh" => act.ok

\* C8 amended: a Get that found the pool empty and no refresh in flight,
\* with no step of another thread or goroutine during the call and none of
\* the supplied entries expired at the selection, returns an entry of the
\* collection on its first use.
C8_UndisturbedGetSucceeds ==
    [][\A t \in Threads :
          (/\ act'.name = "GetAfterRefresh" /\ act'.who = t
           /\ act.solo = t
           /\ \A i \in 1..Len(proxies) : now < proxies[i].expireTime) =>
              /\ act'.ok
              /\ act'.item[1].usedCount = 1
              /\ \E j \in 1..Len(proxies') : proxies'[j] = act'.item[1]]_vars

\* An undisturbed Get on an empty pool returned an entry.
C8_Witness ==
    /\ act.name = "GetAfterRefresh" /\ act.ok
    /\ act.solo = act.who
    /\ Len(proxies) = 1 /\ proxies[1] = act.item[1]

Min(a, b) == IF a < b THEN a ELSE b

\* The callers that have called IncrementUseCount, those still inside it,
\* and those whose compare-and-swap succeeded.
Called == {c \in Callers : cl[c].pc # "idle"}
Inside == {c \in Callers : cl[c].pc \in {"load", "cas"}}
Won == {c \in Callers : cl[c].pc \in {"stamp", "done"} /\ cl[c].ok}

\* C1: callers racing on one fresh entry with use-limit L: the use-count is
\* always the number of calls that succeeded and never above L, and once n
\* calls have been made and none is still inside, min(L, n) of them
\* succeeded.
C1_ClaimsNeitherLostNorOver ==
    /\ entry.usedCount = Cardinality(Won)
    /\ entry.usedCount <= entry.maxUseCount
    /\ Inside = {} =>
          Cardinality(Won) = Min(entry.maxUseCount, Cardinality(Called))

\* All callers have returned, more of them than the limit allows, and the
\* limit allows more than one.
C1_Witness ==
    /\ \A c \in Callers : cl[c].pc = "done"
    /\ entry.maxUseCount > 1
    /\ entry.maxUseCount < Cardinality(Callers)
    /\ entry.usedCount = entry.maxUseCount

\* The recorded Get calls that returned an entry.
GotEntry == {i \in 1..Len(log.gets) : log.gets[i] # "ErrNoAvailableProxy"}

\* C4: a pool holding one available entry with r uses left and a supplier
\* that adds nothing: once n Get calls have been made and all have
\* returned, min(r, n) of them returned that entry and the others
\* ErrNoAvailableProxy.
C4_SingleEntryShared ==
    LET r == entry.maxUseCount - entry.usedCount
    IN  /\ \A i \in GotEntry : log.gets[i] = String(entry)
        /\ Cardinality(GotEntry) <= r
        /\ GetsMade = GetsReturned =>
              Cardinality(GotEntry) = Min(r, GetsReturned)

\* More Get calls than the entry had uses left have all returned.
C4_Witness ==
    /\ GetsReturned = MaxCalls /\ GetsMade = GetsReturned
    /\ entry.maxUseCount - entry.usedCount < MaxCalls
    /\ Cardinality(GotEntry) >= 1

\* How often key k occurs in sequence q.
Occurrences(q, k) == Cardinality({i \in 1..Len(q) : q[i] = k})

\* C7: n entries that stay available, no churn: the Get calls return the
\* entries in the collection's order, cyclically, and after k*n calls every
\* entry has been returned k times.
C7_RoundRobin ==
    LET n == Len(proxies)
        gets == log.gets
        Pos(k) == CHOOSE i \in 1..n : String(proxies[i]) = k
    IN  /\ \A j \in 1..Len(gets) :
              \E i \in 1..n : String(proxies[i]) = gets[j]
        /\ \A j \in 1..(Len(gets) - 1) :
              Pos(gets[j + 1]) = (Pos(gets[j]) % n) + 1
        /\ \A k \in 1..MaxRounds :
              Len(gets) = k * n =>
                 \A i \in 1..n : Occurrences(gets, String(proxies[i])) = k

\* Three entries, six calls.
C7_Witness ==
    /\ Len(proxies) = 3
    /\ Len(log.gets) = 6

\* ------------------------------------------------------------- refreshes

\* Configurations with and without a source identifier and a supplier
\* function; a supplier that is set may fail or return any batch.
Suppliers == {<<"", "nil">>, <<"", "any">>, <<"u", "nil">>, <<"u", "any">>}

\* An empty pool with any of these configurations and an onRefresh
\* callback, used by two threads that add, acquire and refresh.
InitRefresh ==
    /\ \E c \in Suppliers : InitPool(Config(c[1], c[2]))
    /\ proxies = <<>>
    /\ roundRobinIdx = 0
    /\ log = NoLog
    /\ NoCallers
    /\ NoDefault
    /\ NoWork
    /\ NoRouter

NextRefresh ==
    \/ Tick
    \/ \E t \in Threads :
          \/ GetCall(t)
          \/ GetAfterRefresh(t)
          \/ AddProxyCall(t)
          \/ Refresh(t)
    \/ \E a \in Agents :
          \/ RefreshStart(a)
          \/ FetchReturn(a)
          \/ RefreshAdd(a)

SpecRefresh == InitRefresh /\ [][NextRefresh]_vars

\* The step returns from a call of Refresh (made directly, from Get or as a
\* goroutine).
RefreshReturns ==
    /\ act'.name \in {"Refresh", "RefreshStart", "FetchReturn", "RefreshAdd"}
    /\ lc'[act'.who].pc \notin {"fetch", "add"}

\* C11: a step that returns from Refresh, and no other step, calls
\* onRefresh, once: with a count >= 0 and no error when Refresh returns nil,
\* with count 0 and the error when Refresh returns an error.
C11_CallbackOncePerRefresh ==
    [][IF RefreshReturns
       THEN /\ Len(act'.cb) = 1
            /\ act'.cb[1].err = act'.err
            /\ act'.cb[1].count >= 0
            /\ act'.err # "nil" => act'.cb[1].count = 0
       ELSE act'.cb = <<>>]_vars

\* A Refresh on a pool with neither a source identifier nor a supplier
\* function returned ErrAPIURLEmpty and onRefresh, which is set, was not
\* called.
C11_Witness ==
    /\ act.name = "Refresh" /\ act.ret = "Refresh"
    /\ act.err = "ErrAPIURLEmpty"
    /\ cfg.onRefresh /\ act.cb = <<>>

\* The step is the return of a supplier call with an error.
SupplierFails == act'.name = "FetchReturn" /\ act'.err # "nil"

\* C12: when the supplier call returns an error, Refresh returns that error
\* in the same step, without a second supplier call, releasing refreshMu and
\* leaving the collection (entries, order, use-counts) and the cursor as
\* they were, as did its entry step; a Get that follows returns an entry
\* whenever the collection holds an available one.
C12_FailedRefreshChangesNothing ==
    [][/\ SupplierFails =>
             /\ proxies' = proxies
             /\ roundRobinIdx' = roundRobinIdx
             /\ lc[act'.who].pc = "fetch"
             /\ lc'[act'.who].pc \in {"idle", "relock"}
             /\ ~refreshMu'
             /\ act'.err \in {"ErrFetch", "ErrNoFetchFunc"}
             /\ lc[act'.who].op = "Refresh" =>
                   (act'.ret = "Refresh" /\ ~act'.ok)
       /\ act'.name \in {"Refresh", "RefreshStart"} =>
             (proxies' = proxies /\ roundRobinIdx' = roundRobinIdx)
       /\ (/\ act.name = "FetchReturn" /\ act.err # "nil"
           /\ act'.name \in {"Get", "GetAfterRefresh"}
           /\ \E i \in 1..Len(proxies) : IsAvailable(proxies[i])) =>
             (act'.ret = "Get" /\ act'.ok)]_vars

\* A supplier call returned an error while the collection held an
\* available entry and the cursor had advanced.
C12_Witness ==
    /\ act.name = "FetchReturn" /\ act.err = "ErrFetch"
    /\ roundRobinIdx > 0
    /\ \E i \in 1..Len(proxies) : IsAvailable(proxies[i])

\* C13: a call of Refresh returns ErrAPIURLEmpty exactly when neither
\* apiURL nor fetchFunc is set; it then returns in its first step, without
\* taking refreshMu, without a supplier call and without changing the
\* collection, and no agent of such a pool is ever past the TryLock.
C13_UnconfiguredRefresh ==
    /\ [](cfg.apiURL = "" /\ cfg.fetchFunc = "nil" =>
             ~refreshMu /\ InFlight = {})
    /\ [][/\ act'.name \in {"Refresh", "RefreshStart"} =>
                IF cfg.apiURL = "" /\ cfg.fetchFunc = "nil"
                THEN /\ act'.err = "ErrAPIURLEmpty"
                     /\ lc'[act'.who].pc \in {"idle", "relock"}
                     /\ refreshMu' = refreshMu
                     /\ proxies' = proxies
                     /\ lc[act'.who].op = "none" =>
                           (act'.ret = "Refresh" /\ ~act'.ok)
                ELSE act'.err # "ErrAPIURLEmpty"
          /\ act'.err = "ErrAPIURLEmpty" =>
                act'.name \in {"Refresh", "RefreshStart"}]_vars

\* A Refresh returned ErrAPIURLEmpty on a pool that holds an entry.
C13_Witness ==
    /\ act.ret = "Refresh" /\ act.err = "ErrAPIURLEmpty"
    /\ Len(proxies) > 0

\* ------------------------------------------- refreshes on their own

\* The collection after AddProxy of each address of batch, in order.
RECURSIVE AddAll(_, _)
AddAll(ps, batch) ==
    IF batch = <<>> THEN ps
    ELSE AddAll(AddProxy(ps, Head(batch).IP, Head(batch).Port).proxies,
                Tail(batch))

\* A pool seeded with up to MaxCandidates addresses, whose supplier returns
\* batches of up to MaxCandidates addresses, and on which nothing but
\* Refresh is called; the refreshes are tracked.
InitBatch ==
    /\ InitPool(Config("u", "several"))
    /\ \E seed \in SeqsUpTo(Addrs, MaxCandidates) :
          proxies = AddAll(<<>>, seed)
    /\ roundRobinIdx = 0
    /\ log = [NoLog EXCEPT !.track = TRUE]
    /\ NoCallers
    /\ NoDefault
    /\ NoWork
    /\ NoRouter

NextBatch ==
    \/ Tick
    \/ \E t \in Threads : Refresh(t)
    \/ \E a \in Agents :
          \/ FetchReturn(a)
          \/ RefreshAdd(a)

SpecBatch == InitBatch /\ [][NextBatch]_vars

\* The (host, port) pairs of a sequence of addresses or entries.
Pairs(q) == {<<q[i].IP, q[i].Port>> : i \in 1..Len(q)}

\* Agent a is about to return from a Refresh whose AddProxy loop is done.
LoopDone(a) == lc[a].pc = "add" /\ lc[a].batch = <<>>

\* C14: a successful refresh with no other mutation in between: the count
\* passed to onRefresh is the number of distinct (host, port) pairs of the
\* batch that no entry had before, which is the growth of the collection;
\* every candidate has gone through AddProxy.
C14_CountIsNewPairs ==
    [][\A a \in Agents :
          (LoopDone(a) /\ act'.name = "RefreshAdd" /\ act'.who = a) =>
              /\ act'.cb = <<[count |-> lc[a].count, err |-> "nil"]>>
              /\ lc[a].count =
                    Cardinality(Pairs(lc[a].all) \ Pairs(lc[a].before))
              /\ lc[a].count = Len(proxies) - Len(lc[a].before)
              /\ \A i \in 1..Len(lc[a].all) :
                    HasKey(proxies, lc[a].all[i].IP \o ":" \o lc[a].all[i].Port)
      ]_vars

\* The AddProxy loop is done for a batch of two different pairs, neither
\* held before, and has counted one insertion.
C14_Witness ==
    \E a \in Agents :
        /\ LoopDone(a)
        /\ Cardinality(Pairs(lc[a].all) \ Pairs(lc[a].before)) = 2
        /\ lc[a].count = 1

\* The creation time of the entry plus the TTL it was created with.
Boundary == entry.createTime + cfg.expireSeconds

\* C15: an entry created at time t with TTL d that has uses left is
\* available exactly at the times before t + d; once the clock has reached
\* t + d it is unavailable and stays so.
C15_ExpiryBoundary ==
    /\ [](entry.usedCount < entry.maxUseCount =>
              (IsAvailable(entry) <=> now < Boundary))
    /\ [](now >= Boundary => ~IsAvailable(entry))
    /\ [][now >= Boundary => ~(IsAvailable(entry))']_vars

\* An entry with a positive TTL and uses left, at the instant of its
\* expiry.
C15_Witness ==
    /\ cfg.expireSeconds > 0 /\ entry.maxUseCount > 0
    /\ now = entry.createTime + cfg.expireSeconds
    /\ entry.usedCount < entry.maxUseCount
    /\ ~IsAvailable(entry)

\* ---------------------------------------------------------- construction

\* The values given for a numeric option: negative, zero, positive.
Given == (-1)..MaxGiven

\* No pool has been built: some thread is about to call New.
Built == \A t \in Threads : lc[t].pc # "new"

\* New(cfg), called by thread t with the Config that cfg holds.
NewCall(t) ==
    /\ lc[t].pc = "new"
    /\ cfg' = New(cfg)
    /\ lc' = [lc EXCEPT ![t] = Idle]
    /\ act' = Returned("New", t, "New", TRUE, "nil", <<cfg>>, 0)
    /\ UNCHANGED <<proxies, roundRobinIdx, refreshMu, now, log, entryVars, singletonVars, workVars,
                   routerVars>>

AddProxyBuilt(t) == Built /\ AddProxyCall(t)
GetBuilt(t) == Built /\ roundRobinIdx < MaxCursor /\ Get(t)

\* A Config with any numeric options, a source identifier and a fetch
\* function that returns nothing, about to be passed to New by the first thread; the pool is then
\* used by both.
InitNew ==
    /\ refreshMu = FALSE
    /\ \E u \in Given, e \in Given, m \in Given :
          cfg = [apiURL |-> "u", fetchFunc |-> "empty", onRefresh |-> FALSE,
                    onProxyGet |-> TRUE,
                 maxUseCount |-> u, expireSeconds |-> e, minPoolSize |-> m]
    /\ now = 0
    /\ lc = [a \in Agents |->
               IF a = "t1" THEN [Idle EXCEPT !.pc = "new", !.op = "New"]
               ELSE Idle]
    /\ act = [NoAct EXCEPT !.name = "Config"]
    /\ proxies = <<>>
    /\ roundRobinIdx = 0
    /\ log = NoLog
    /\ NoCallers
    /\ NoDefault
    /\ NoWork
    /\ NoRouter

NextNew ==
    \/ \E t \in Threads :
          \/ NewCall(t)
          \/ AddProxyBuilt(t)
          \/ GetBuilt(t)
          \/ GetAfterRefresh(t)
    \/ \E a \in Agents :
          \/ RefreshStart(a)
          \/ FetchReturn(a)
          \/ RefreshAdd(a)

SpecNew == InitNew /\ [][NextNew]_vars

\* The value the pool uses for a numeric option given as v, whose default
\* is d.
Effective(v, d) == IF v <= 0 THEN d ELSE v

\* C16: New gives the pool use-limit 5, TTL 180 and minimum size 3 where the
\* Config has a non-positive value and the Config's value where it is
\* positive; these are the values the pool then works with: no later step
\* changes them, every entry is created with that use-limit and TTL, and Get
\* starts a goroutine exactly when the size is below that minimum.
C16_NumericDefaults ==
    /\ [][act'.name = "New" =>
             /\ cfg'.maxUseCount = Effective(cfg.maxUseCount, 5)
             /\ cfg'.expireSeconds = Effective(cfg.expireSeconds, 180)
             /\ cfg'.minPoolSize = Effective(cfg.minPoolSize, 3)]_vars
    /\ [][act'.name # "New" => cfg' = cfg]_vars
    /\ [](Built =>
             /\ cfg.maxUseCount > 0 /\ cfg.expireSeconds > 0
             /\ cfg.minPoolSize > 0
             /\ \A i \in 1..Len(proxies) :
                   /\ proxies[i].maxUseCount = cfg.maxUseCount
                   /\ proxies[i].expireTime =
                         proxies[i].createTime + cfg.expireSeconds)
    /\ [][(act'.name = "Get" /\ act'.ret = "Get") =>
             (Launched # {} <=>
                 Len(cleanupUnsafe(proxies)) < cfg.minPoolSize)]_vars

\* New was given a non-positive use-limit and a positive TTL and minimum
\* size.
C16_Witness ==
    /\ act.name = "New"
    /\ act.item[1].maxUseCount <= 0 /\ cfg.maxUseCount = 5
    /\ act.item[1].expireSeconds > 0
    /\ cfg.expireSeconds = act.item[1].expireSeconds
    /\ act.item[1].minPoolSize > 0
    /\ cfg.minPoolSize = act.item[1].minPoolSize

\* -------------------------------------------------------- default pool

\* Everything but the default pool's accessors.
restVars ==
    <<proxies, roundRobinIdx, refreshMu, cfg, now, lc, log, entryVars,
      routerVars, workVars>>

\* The Config values InitDefault is called with; Default passes Config{}.
ZeroConfig ==
    [apiURL |-> "", fetchFunc |-> "nil", onRefresh |-> FALSE,
     onProxyGet |-> FALSE,
     maxUseCount |-> 0, expireSeconds |-> 0, minPoolSize |-> 0]

InitConfigs == {Config("u", "any"), Config("v", "any")}

\* once.Do runs its function whatever once.done says.
MustRunAlways == TRUE
\* once.Do, under the mutex of once: the function runs if done is not set.
MustRun == ~once.done

\* Default() or InitDefault(c) is called by thread t: once.Do first reads
\* done without the mutex, and returns if it is set.
EnterOnce(t, op, c) ==
    /\ dcall[t].pc = "idle"
    /\ dcall[t].calls < MaxDefaultCalls
    /\ dcall' = [dcall EXCEPT ![t] =
                    [@ EXCEPT !.pc = IF once.done THEN "ret" ELSE "lock",
                              !.op = op, !.arg = <<c>>, !.ret = <<>>]]
    /\ act' = Act(op, t)
    /\ UNCHANGED <<defaultPool, once, built, restVars>>

Default(t) == EnterOnce(t, "Default", ZeroConfig)

InitDefault(t) == \E c \in InitConfigs : EnterOnce(t, "InitDefault", c)

\* once.Do takes the mutex of once; with done set meanwhile it releases it
\* and returns, otherwise it goes on to run the function.
OnceLock(t) ==
    /\ dcall[t].pc = "lock"
    /\ ~once.m
    /\ IF MustRun
       THEN /\ once' = [once EXCEPT !.m = TRUE]
            /\ dcall' = [dcall EXCEPT ![t] = [@ EXCEPT !.pc = "run"]]
       ELSE /\ dcall' = [dcall EXCEPT ![t] = [@ EXCEPT !.pc = "ret"]]
            /\ UNCHANGED once
    /\ act' = Act("OnceLock", t)
    /\ UNCHANGED <<defaultPool, built, restVars>>

\* The function passed to once.Do: defaultPool = New(c); then done is set
\* and the mutex released.
OnceRun(t) ==
    /\ dcall[t].pc = "run"
    /\ defaultPool' = <<[id |-> built.pools + 1, cfg |-> New(dcall[t].arg[1])]>>
    /\ built' = [built EXCEPT !.pools = @ + 1]
    /\ once' = [done |-> TRUE, m |-> FALSE]
    /\ dcall' = [dcall EXCEPT ![t] = [@ EXCEPT !.pc = "ret"]]
    /\ act' = Act("OnceRun", t)
    /\ UNCHANGED restVars

\* return defaultPool
DefaultReturn(t) ==
    /\ dcall[t].pc = "ret"
    /\ dcall' = [dcall EXCEPT ![t] = [@ EXCEPT !.pc = "idle",
                                               !.ret = <<defaultPool>>,
                                               !.calls = @ + 1]]
    /\ act' = Returned("DefaultReturn", t, dcall[t].op, defaultPool # <<>>,
                       "nil", defaultPool, 0)
    /\ UNCHANGED <<defaultPool, once, built, restVars>>

\* ResetDefault(), called while no call of Default or InitDefault is in
\* progress (it writes once and defaultPool without synchronisation, and
\* is meant for the set-up of tests).
ResetDefault(t) ==
    /\ \A u \in Threads : dcall[u].pc = "idle"
    /\ built.resets < MaxResets
    /\ once' = [done |-> FALSE, m |-> FALSE]
    /\ defaultPool' = <<>>
    /\ built' = [built EXCEPT !.resets = @ + 1]
    /\ act' = Returned("ResetDefault", t, "ResetDefault", TRUE, "nil", NoItem, 0)
    /\ UNCHANGED <<dcall, restVars>>

\* Threads that call Default, InitDefault and ResetDefault in any order.
InitDefaultPool ==
    /\ InitPool(ZeroConfig)
    /\ proxies = <<>>
    /\ roundRobinIdx = 0
    /\ log = NoLog
    /\ NoCallers
    /\ NoDefault
    /\ NoWork
    /\ NoRouter

NextDefault ==
    \E t \in Threads :
        \/ Default(t)
        \/ InitDefault(t)
        \/ OnceLock(t)
        \/ OnceRun(t)
        \/ DefaultReturn(t)
        \/ ResetDefault(t)

SpecDefault == InitDefaultPool /\ [][NextDefault]_vars

\* C17: as long as ResetDefault has not been called: at most one pool has
\* been built; every call of Default or InitDefault that has returned
\* returned that pool, which is the current defaultPool; and once defaultPool
\* is set no step changes it, so an InitDefault with another Config returns
\* the pool built first.
C17_DefaultBuiltOnce ==
    /\ [](built.resets = 0 =>
             /\ built.pools <= 1
             /\ (defaultPool # <<>>) <=> (built.pools = 1)
             /\ once.done <=> (defaultPool # <<>>)
             /\ \A t \in Threads :
                   dcall[t].ret # <<>> =>
                      /\ dcall[t].ret[1] # <<>>
                      /\ dcall[t].ret[1] = defaultPool)
    /\ [][(built'.resets = 0 /\ defaultPool # <<>>) =>
             defaultPool' = defaultPool]_vars

\* With no ResetDefault called, both threads have returned from their
\* calls, one of them an InitDefault with a Config that is not the one the
\* pool was built with.
C17_Witness ==
    /\ built.resets = 0
    /\ \A t \in Threads : dcall[t].pc = "idle" /\ dcall[t].ret # <<>>
    /\ \E t \in Threads :
          /\ dcall[t].op = "InitDefault"
          /\ New(dcall[t].arg[1]) # defaultPool[1].cfg

\* ---------------------------------------------------------------------
\* A caller keeps the *ProxyItem that Get returned
\* ---------------------------------------------------------------------

\* A pool that holds one available entry; the first entry a Get returns is
\* kept by its caller.
InitHandle ==
    /\ \E c \in Barren, limit \in 1..MaxRemaining :
          InitPool([Config(c[1], c[2]) EXCEPT !.maxUseCount = limit])
    /\ \E used \in 0..(cfg.maxUseCount - 1) :
          entry = [NewProxyItemWithConfig("a", "c", cfg.maxUseCount,
                                          cfg.expireSeconds)
                     EXCEPT !.usedCount = used]
    /\ proxies = <<entry>>
    /\ roundRobinIdx \in 0..MaxCursor
    /\ log = [NoLog EXCEPT !.on = TRUE, !.track = TRUE]
    /\ cl = [c \in Callers |-> [pc |-> "idle", current |-> 0, ok |-> FALSE]]
    /\ NoDefault
    /\ NoWork
    /\ NoRouter

\* The entry the kept pointer points to, as it is now.
Held ==
    IF log.held[1].live
    THEN proxies[IndexOfKey(proxies, log.held[1].key)]
    ELSE log.held[1].obj

\* GetUsedCount() through the kept pointer.
GetUsedCount == Held.usedCount

\* IncrementUseCount() through the kept pointer, by the caller that keeps
\* it, outside any pool lock.
IncrementHeld(t) ==
    /\ log.held # <<>>
    /\ lc[t].pc = "idle"
    /\ LET inc == IncrementUseCount(Held)
       IN  /\ IF log.held[1].live
              THEN /\ proxies' = [proxies EXCEPT
                                    ![IndexOfKey(proxies, log.held[1].key)] =
                                        inc.item]
                   /\ UNCHANGED log
              ELSE /\ log' = [log EXCEPT !.held[1].obj = inc.item]
                   /\ UNCHANGED proxies
           /\ act' = Returned("IncrementHeld", t, "IncrementUseCount", inc.ok,
                              "nil", <<inc.item>>, 0)
    /\ UNCHANGED <<roundRobinIdx, refreshMu, cfg, now, lc, entryVars,
                   singletonVars, workVars,
                   routerVars>>

NextHandle ==
    \/ Tick
    \/ \E t \in Threads :
          \/ GetBounded(t)
          \/ GetAfterRefresh(t)
          \/ IncrementHeld(t)
    \/ \E a \in Agents :
          \/ RefreshStart(a)
          \/ FetchReturn(a)
          \/ RefreshAdd(a)

SpecHandle == InitHandle /\ [][NextHandle]_vars

\* C18: the entry a Get returned is a snapshot that shares nothing with the
\* pool: no later pool operation changes the use-count read through it,
\* and an operation on it leaves the pool's collection as it was.
C18_ReturnedEntryIsSnapshot ==
    /\ [][(log.held # <<>> /\ act'.name # "IncrementHeld")
             => GetUsedCount' = GetUsedCount]_vars
    /\ [][act'.name = "IncrementHeld" => proxies' = proxies]_vars

\* A second Get has handed out the entry the caller still keeps, and the
\* use-count read through the kept pointer is no longer the one it had when
\* the first Get returned.
C18_Witness ==
    /\ log.held # <<>>
    /\ log.held[1].live
    /\ act.ret = "Get" /\ act.ok
    /\ Len(log.gets) >= 2
    /\ String(act.item[1]) = log.held[1].key
    /\ GetUsedCount > log.held[1].seen

\* ---------------------------------------------------------------------
\* Readers: Size, AvailableCount, GetStats
\* ---------------------------------------------------------------------

\* Size, lines 320-324.
Size(ps) == Len(ps)

\* AvailableCount without the availability test.
AvailableCountAll(ps) == Len(ps)

\* AvailableCount, lines 327-338.
AvailableCount(ps) == Len(AvailableIdx(ps))

SizeCall(t) ==
    /\ lc[t].pc = "idle"
    /\ act' = Returned("Size", t, "Size", TRUE, "nil", NoItem, Size(proxies))
    /\ UNCHANGED <<proxies, roundRobinIdx, refreshMu, cfg, now, lc, log,
                   entryVars, singletonVars, workVars,
                   routerVars>>

AvailableCountCall(t) ==
    /\ lc[t].pc = "idle"
    /\ act' = Returned("AvailableCount", t, "AvailableCount", TRUE, "nil",
                       NoItem, AvailableCount(proxies))
    /\ UNCHANGED <<proxies, roundRobinIdx, refreshMu, cfg, now, lc, log,
                   entryVars, singletonVars, workVars,
                   routerVars>>

\* GetStats, lines 349-353: poolMu is taken for reading and Total is set.
GetStatsEnter(t) ==
    /\ lc[t].pc = "idle"
    /\ lc' = [lc EXCEPT ![t] =
                [Idle EXCEPT !.pc = "stats", !.op = "GetStats",
                             !.stats = [NoStats EXCEPT !.Total = Len(proxies)]]]
    /\ act' = Act("GetStatsEnter", t)
    /\ UNCHANGED <<proxies, roundRobinIdx, refreshMu, cfg, now, log,
                   entryVars, singletonVars, workVars,
                   routerVars>>

\* The Stats value s after the loop body, lines 355-363, has seen entry p.
Counted(s, p) ==
    [s EXCEPT !.Available = IF IsAvailable(p) THEN @ + 1 ELSE @,
              !.Expired = IF IsExpired(p) THEN @ + 1 ELSE @,
              !.MaxUsed = IF IsMaxUsed(p) THEN @ + 1 ELSE @]

\* GetStats, lines 354-364: one pass of the loop over p.proxies.
GetStatsLoop(t) ==
    /\ lc[t].pc = "stats"
    /\ lc[t].i < Len(proxies)
    /\ lc' = [lc EXCEPT ![t] =
                [@ EXCEPT !.stats = Counted(@, proxies[lc[t].i + 1]),
                          !.i = @ + 1]]
    /\ act' = Act("GetStatsLoop", t)
    /\ UNCHANGED <<proxies, roundRobinIdx, refreshMu, cfg, now, log,
                   entryVars, singletonVars, workVars,
                   routerVars>>

\* GetStats, lines 365-366: the loop is over, poolMu is released.
GetStatsReturn(t) ==
    /\ lc[t].pc = "stats"
    /\ lc[t].i >= Len(proxies)
    /\ lc' = [lc EXCEPT ![t] = Idle]
    /\ act' = Returned("GetStatsReturn", t, "GetStats", TRUE, "nil",
                       <<lc[t].stats>>, 0)
    /\ UNCHANGED <<proxies, roundRobinIdx, refreshMu, cfg, now, log,
                   entryVars, singletonVars, workVars,
                   routerVars>>

\* The ages, at time 0, of the entries a pool holds at the start: just
\* created, or older than their lifetime.
Ages == {0, MaxTTL + 1}

\* The collection after the entries of seeds were added, each at its time
\* and claimed as often as it says.
RECURSIVE Seeded(_, _)
Seeded(ps, seeds) ==
    IF seeds = <<>> THEN ps
    ELSE LET d == Head(seeds)
             e == [NewProxyItemWithConfig(d.addr.IP, d.addr.Port,
                                          cfg.maxUseCount, cfg.expireSeconds)
                     EXCEPT !.createTime = @ - d.age,
                            !.expireTime = @ - d.age,
                            !.usedCount = d.used,
                            !.lastUseTime = IF d.used > 0 THEN 0 - d.age
                                            ELSE @]
         IN  Seeded(IF HasKey(ps, String(e)) THEN ps ELSE Append(ps, e),
                    Tail(seeds))

\* A pool that has been in use: it holds up to MinSize entries, some of
\* them expired or used up; its supplier has nothing to give.
InitReaders ==
    /\ InitPool(Config("u", "empty"))
    /\ \E seeds \in SeqsUpTo([addr : Addrs, age : Ages, used : 0..MaxLimit],
                              MinSize) :
          proxies = Seeded(<<>>, seeds)
    /\ roundRobinIdx = 0
    /\ log = NoLog
    /\ NoCallers
    /\ NoDefault
    /\ NoWork
    /\ NoRouter

NextReaders ==
    \/ Tick
    \/ \E t \in Threads :
          \/ GetCall(t)
          \/ GetAfterRefresh(t)
          \/ AddProxyCall(t)
          \/ RemoveCall(t)
          \/ Cleanup(t)
          \/ Clear(t)
          \/ SizeCall(t)
          \/ AvailableCountCall(t)
          \/ GetStatsEnter(t)
          \/ GetStatsLoop(t)
          \/ GetStatsReturn(t)
    \/ \E a \in Agents :
          \/ RefreshStart(a)
          \/ FetchReturn(a)
          \/ RefreshAdd(a)

SpecReaders == InitReaders /\ [][NextReaders]_vars

\* C19: GetStats computes its four numbers from one state of the
\* collection: from the step that sets Total to the step that returns, no
\* step changes the collection, a use-count or the cursor; the Total it
\* returns is the length of the collection at the return, and Available,
\* Expired and MaxUsed are each at most Total.
C19_StatsOneSnapshot ==
    /\ [][ReadLocked => (proxies' = proxies /\ roundRobinIdx' = roundRobinIdx)]_vars
    /\ [][act'.ret = "GetStats" =>
             LET s == act'.item[1]
             IN  /\ s.Total = Len(proxies')
                 /\ s.Available \in 0..s.Total
                 /\ s.Expired \in 0..s.Total
                 /\ s.MaxUsed \in 0..s.Total]_vars

\* GetStats has returned the numbers of a collection of two entries, one
\* available and one not, while another thread was inside Get.
C19_Witness ==
    /\ act.ret = "GetStats"
    /\ act.item[1].Total = 2
    /\ act.item[1].Available = 1
    /\ act.item[1].Expired + act.item[1].MaxUsed >= 1
    /\ \E t \in Threads : lc[t].pc \in {"refresh", "relock"}

\* The entries of ps that are neither expired nor used up at time n.
Usable(ps, n) ==
    {i \in 1..Len(ps) : n < ps[i].expireTime
                          /\ ps[i].usedCount < ps[i].maxUseCount}

\* C20: AvailableCount returns the number of entries that are in the
\* collection at the time of the call with now before their expiry and
\* their use-count below their limit, Size returns the length of the
\* collection, and neither changes the collection, a use-count or the
\* cursor.
C20_LiveCounts ==
    /\ [][act'.ret = "AvailableCount" =>
             /\ act'.n = Cardinality(Usable(proxies, now))
             /\ proxies' = proxies /\ roundRobinIdx' = roundRobinIdx]_vars
    /\ [][act'.ret = "Size" =>
             /\ act'.n = Len(proxies)
             /\ proxies' = proxies /\ roundRobinIdx' = roundRobinIdx]_vars

\* AvailableCount has returned less than the collection holds: an entry has
\* expired or was used up since the last cleanup and is still held.
C20_Witness ==
    /\ act.ret = "AvailableCount"
    /\ act.n >= 1
    /\ act.n < Len(proxies)
    /\ \E i \in 1..Len(proxies) : proxies[i].expireTime <= now

\* ---------------------------------------------------------------------
\* onProxyGet
\* ---------------------------------------------------------------------

\* C22: a Get that returns an entry has called onProxyGet once, with that
\* entry as it is after the use was claimed (the entry the collection
\* holds, its use-count one more than before); no other step calls
\* onProxyGet, in particular no Get that returns ErrNoAvailableProxy.
C22_OnProxyGetOncePerSuccess ==
    [][IF act'.ret = "Get" /\ act'.ok
       THEN /\ act'.got = act'.item
            /\ Len(act'.got) = 1
            /\ \E i \in 1..Len(proxies') :
                  /\ proxies'[i] = act'.got[1]
                  /\ \E j \in 1..Len(proxies) :
                        /\ String(proxies[j]) = String(act'.got[1])
                        /\ act'.got[1].usedCount = proxies[j].usedCount + 1
       ELSE act'.got = <<>>]_vars

\* A Get has returned an entry, first claimed by this Get, and has called
\* onProxyGet with it.
C22_Witness ==
    /\ act.ret = "Get" /\ act.ok
    /\ act.got # <<>>
    /\ act.got[1].usedCount = 1
    /\ roundRobinIdx >= 1

\* ---------------------------------------------------------------------
\* IncrementUseCount on an entry that has been used
\* ---------------------------------------------------------------------

\* An entry that was claimed some number of times, at time 0 at the
\* latest, and whose limit was then set with SetMaxUseCount: the use-count
\* may be below, at or above the limit.  Callers each call
\* IncrementUseCount once, at any time.
InitUsed ==
    /\ InitPool(Config("u", "any"))
    /\ proxies = <<>>
    /\ roundRobinIdx = 0
    /\ log = NoLog
    /\ \E limit \in 0..MaxEntryLimit, used \in 0..MaxEntryLimit :
          entry = [NewProxyItemWithConfig("a", "c", limit, cfg.expireSeconds)
                     EXCEPT !.usedCount = used,
                            !.lastUseTime = IF used > 0 THEN 0 ELSE @]
    /\ cl = [c \in Callers |-> [pc |-> "idle", current |-> 0, ok |-> FALSE]]
    /\ NoDefault
    /\ NoWork
    /\ NoRouter

SpecUsed == InitUsed /\ [][NextEntry]_vars

\* C23: a call of IncrementUseCount that finds the use-count at or above
\* the limit returns false, and a call that returns false has changed
\* nothing of the entry; a call that returns true found the use-count below
\* the limit and raised it by exactly one, in one step, and has written
\* nothing but the use-count and the last-use time.
C23_ClaimUseAtLimit ==
    [][\A c \in Callers :
          cl'[c] # cl[c] =>
             /\ (cl[c].pc \in {"idle", "load"}
                   /\ entry.usedCount >= entry.maxUseCount)
                  => (cl'[c].pc = "done" /\ ~cl'[c].ok)
             /\ IF cl'[c].ok /\ ~cl[c].ok
                THEN /\ entry.usedCount < entry.maxUseCount
                     /\ entry' = [entry EXCEPT !.usedCount = @ + 1]
                ELSE IF cl[c].ok
                THEN \E v \in 0..now : entry' = [entry EXCEPT !.lastUseTime = v]
                ELSE entry' = entry]_vars

\* A call has returned false from an entry whose use-count is above its
\* limit, after the clock went on, and the entry is as it was at the start.
C23_Witness ==
    /\ \E c \in Callers : cl[c].pc = "done" /\ ~cl[c].ok
    /\ entry.usedCount > entry.maxUseCount
    /\ entry.maxUseCount > 0
    /\ now > 0
    /\ entry.lastUseTime = 0

\* ---------------------------------------------------------------------
\* Compaction
\* ---------------------------------------------------------------------

\* The entries of ps that are neither expired nor used up at time n, in
\* their order.
Survivors(ps, n) ==
    SelectSeq(ps, LAMBDA p : n < p.expireTime /\ p.usedCount < p.maxUseCount)

\* The "ip:port" strings of ps, in order.
Strings(ps) == [i \in 1..Len(ps) |-> String(ps[i])]

\* C24: the first step of Get and Cleanup leave in the collection exactly
\* the entries that were available at that moment, in their order (Get
\* then claims a use of one of them); Cleanup returns the number of entries
\* it removed; and no step of Get, AddProxy, Refresh or Cleanup removes an
\* entry that is available, or reorders those that stay.
C24_CompactionDropsExactlyUnavailable ==
    /\ [][act'.name \in {"Get", "Cleanup"} =>
             /\ Strings(proxies') = Strings(Survivors(proxies, now))
             /\ \A i \in 1..Len(proxies') :
                   \/ proxies'[i] = Survivors(proxies, now)[i]
                   \/ act'.ok /\ act'.item = <<proxies'[i]>>]_vars
    /\ [][act'.name = "Cleanup" =>
             /\ act'.n = Len(proxies) - Len(proxies')
             /\ act'.n = Len(proxies) - Len(Survivors(proxies, now))
             /\ proxies' = Survivors(proxies, now)]_vars
    /\ [][act'.name \notin {"Remove", "Clear"} =>
             /\ \A i \in 1..Len(proxies) :
                   (now < proxies[i].expireTime
                      /\ proxies[i].usedCount < proxies[i].maxUseCount)
                     => \E j \in 1..Len(proxies') :
                           String(proxies'[j]) = String(proxies[i])
             /\ \A i1, i2 \in 1..Len(proxies), j1, j2 \in 1..Len(proxies') :
                   (/\ i1 < i2
                    /\ String(proxies'[j1]) = String(proxies[i1])
                    /\ String(proxies'[j2]) = String(proxies[i2]))
                     => j1 < j2]_vars

\* Cleanup has removed one of two entries, the first, and the collection
\* holds the second, which is available.
C24_Witness ==
    /\ act.name = "Cleanup"
    /\ act.n = 1
    /\ Len(proxies) = 1
    /\ proxies[1].createTime > 0
    /\ IsAvailable(proxies[1])

\* ---------------------------------------------------------------------
\* The cursor
\* ---------------------------------------------------------------------

\* Get while a caller that keeps the pointer an earlier Get returned calls
\* IncrementUseCount through it: that call needs no lock of the pool, and
\* here it takes effect after Get's filter loop (lines 217-222) has found
\* the entry available and before Get claims its use (line 234).  Entry k
\* has been returned before when its use-count is not 0.
GetRaced(t) ==
    /\ lc[t].pc = "idle"
    /\ ~ReadLocked
    /\ roundRobinIdx < MaxCursor
    /\ LET ps == cleanupUnsafe(proxies)
           available == AvailableIdx(ps)
       IN  /\ \E k \in 1..Len(ps) :
                 /\ ps[k].usedCount > 0
                 /\ LET raced == [ps EXCEPT ![k] = IncrementUseCount(ps[k]).item]
                        s == GetClaim(available, raced, roundRobinIdx)
                    IN  /\ proxies' = s.proxies
                        /\ roundRobinIdx' = s.idx
                        /\ act' = [Returned("GetRaced", t, "Get",
                                            s.err = "nil", s.err, s.item, 0)
                                     EXCEPT !.got = OnProxyGet(s)]
                        /\ log' = Logged(s)
           /\ IF NeedsAsync(ps)
              THEN /\ \E g \in Goroutines : lc[g].pc = "idle"
                   /\ lc' = [lc EXCEPT ![FreeGoroutine] =
                                  [Idle EXCEPT !.pc = "refresh",
                                               !.op = "go"]]
              ELSE UNCHANGED lc
    /\ UNCHANGED <<refreshMu, cfg, now, entryVars, singletonVars, workVars,
                   routerVars>>

\* An empty pool whose supplier has nothing to give and whose entries can
\* be used more than once.
InitCursor ==
    /\ InitPool([Config("u", "empty") EXCEPT !.maxUseCount = MaxRemaining])
    /\ proxies = <<>>
    /\ roundRobinIdx = 0
    /\ log = NoLog
    /\ NoCallers
    /\ NoDefault
    /\ NoWork
    /\ NoRouter

\* Every operation of the pool.
NextCursor ==
    \/ Tick
    \/ \E t \in Threads :
          \/ GetCall(t)
          \/ GetRaced(t)
          \/ GetAfterRefresh(t)
          \/ AddProxyCall(t)
          \/ Refresh(t)
          \/ RemoveCall(t)
          \/ Cleanup(t)
          \/ Clear(t)
          \/ SizeCall(t)
          \/ AvailableCountCall(t)
          \/ GetStatsEnter(t)
          \/ GetStatsLoop(t)
          \/ GetStatsReturn(t)
    \/ \E a \in Agents :
          \/ RefreshStart(a)
          \/ FetchReturn(a)
          \/ RefreshAdd(a)

SpecCursor == InitCursor /\ [][NextCursor]_vars

\* C25: roundRobinIdx never decreases; a step in which Get returns changes
\* it, by exactly one, exactly when Get's filter found an available entry
\* (also when the claim then fails), and no other step changes it.
C25_CursorAdvancesOnSelection ==
    [][/\ roundRobinIdx' >= roundRobinIdx
       /\ IF act'.ret = "Get" /\ Survivors(proxies, now) # <<>>
          THEN roundRobinIdx' = roundRobinIdx + 1
          ELSE roundRobinIdx' = roundRobinIdx]_vars

\* A Get has failed at the claim, after its filter had found an available
\* entry, and the cursor has advanced.
C25_Witness ==
    /\ act.name = "GetRaced"
    /\ ~act.ok
    /\ roundRobinIdx = MaxCursor
    /\ \E i \in 1..Len(proxies) :
          /\ proxies[i].usedCount = proxies[i].maxUseCount
          /\ now < proxies[i].expireTime

\* ---------------------------------------------------------------------
\* Proxy (request.go): the pool it owns and the pool's options
\* ---------------------------------------------------------------------

\* The pool variables that no step of the Proxy but initPool touches.
poolRest == <<now, lc, log, entryVars, singletonVars, workVars, rc>>

\* initPool, request.go lines 454-464, with p.mu held: the Config that New
\* is given.  SimpleFetchFunc may fail or return any batch.
PoolConfig ==
    [apiURL |-> router.poolAPIURL, fetchFunc |-> "any", onRefresh |-> FALSE,
     onProxyGet |-> FALSE, maxUseCount |-> router.poolMaxUseCount,
     expireSeconds |-> router.poolExpireSeconds,
     minPoolSize |-> router.poolMinSize]

\* initPool: the pool is built when there is none.
initPool ==
    IF router.pool
    THEN UNCHANGED <<cfg, proxies, roundRobinIdx, refreshMu>>
    ELSE /\ cfg' = New(PoolConfig)
         /\ proxies' = <<>>
         /\ roundRobinIdx' = 0
         /\ refreshMu' = FALSE

\* GetPool, request.go lines 467-472.
GetPool(t) ==
    /\ rc[t].pc = "idle"
    /\ initPool
    /\ router' = [router EXCEPT !.pool = TRUE]
    /\ act' = Returned("GetPool", t, "GetPool", TRUE, "nil", NoItem, 0)
    /\ UNCHANGED poolRest

\* SetPoolMaxUseCount, SetPoolExpireSeconds, SetPoolMinSize, request.go
\* lines 421-451: the value is stored in the Proxy and, when there is a
\* pool, passed to the pool's setter.
SetPoolMaxUseCount(t, count) ==
    /\ rc[t].pc = "idle"
    /\ router' = [router EXCEPT !.poolMaxUseCount = count]
    /\ cfg' = IF router.pool THEN [cfg EXCEPT !.maxUseCount = count] ELSE cfg
    /\ act' = Returned("SetPoolMaxUseCount", t, "SetPoolMaxUseCount", TRUE,
                       "nil", NoItem, count)
    /\ UNCHANGED <<proxies, roundRobinIdx, refreshMu, poolRest>>

SetPoolExpireSeconds(t, seconds) ==
    /\ rc[t].pc = "idle"
    /\ router' = [router EXCEPT !.poolExpireSeconds = seconds]
    /\ cfg' = IF router.pool THEN [cfg EXCEPT !.expireSeconds = seconds]
              ELSE cfg
    /\ act' = Returned("SetPoolExpireSeconds", t, "SetPoolExpireSeconds",
                       TRUE, "nil", NoItem, seconds)
    /\ UNCHANGED <<proxies, roundRobinIdx, refreshMu, poolRest>>

SetPoolMinSize(t, size) ==
    /\ rc[t].pc = "idle"
    /\ router' = [router EXCEPT !.poolMinSize = size]
    /\ cfg' = IF router.pool THEN [cfg EXCEPT !.minPoolSize = size] ELSE cfg
    /\ act' = Returned("SetPoolMinSize", t, "SetPoolMinSize", TRUE, "nil",
                       NoItem, size)
    /\ UNCHANGED <<proxies, roundRobinIdx, refreshMu, poolRest>>

\* ProxyPool.SetMaxUseCount, SetExpireSeconds, SetMinPoolSize, part_004
\* lines 96-112, called on the pool that GetPool returned.
SetMaxUseCount(t, count) ==
    /\ router.pool
    /\ cfg' = [cfg EXCEPT !.maxUseCount = count]
    /\ act' = Returned("SetMaxUseCount", t, "SetMaxUseCount", TRUE, "nil",
                       NoItem, count)
    /\ UNCHANGED <<proxies, roundRobinIdx, refreshMu, poolRest, router>>

SetExpireSeconds(t, seconds) ==
    /\ router.pool
    /\ cfg' = [cfg EXCEPT !.expireSeconds = seconds]
    /\ act' = Returned("SetExpireSeconds", t, "SetExpireSeconds", TRUE, "nil",
                       NoItem, seconds)
    /\ UNCHANGED <<proxies, roundRobinIdx, refreshMu, poolRest, router>>

SetMinPoolSize(t, size) ==
    /\ router.pool
    /\ cfg' = [cfg EXCEPT !.minPoolSize = size]
    /\ act' = Returned("SetMinPoolSize", t, "SetMinPoolSize", TRUE, "nil",
                       NoItem, size)
    /\ UNCHANGED <<proxies, roundRobinIdx, refreshMu, poolRest, router>>

\* A new Proxy; it has no pool yet.
InitRouter ==
    /\ InitPool(ZeroConfig)
    /\ proxies = <<>>
    /\ roundRobinIdx = 0
    /\ log = NoLog
    /\ NoCallers
    /\ NoDefault
    /\ NoWork
    /\ NoRouter

NextConfig ==
    \E t \in Threads :
       \/ GetPool(t)
       \/ \E v \in Given :
             \/ SetPoolMaxUseCount(t, v)
             \/ SetPoolExpireSeconds(t, v)
             \/ SetPoolMinSize(t, v)
             \/ SetMaxUseCount(t, v)
             \/ SetExpireSeconds(t, v)
             \/ SetMinPoolSize(t, v)

SpecConfig == InitRouter /\ [][NextConfig]_vars

\* C26: whatever the sequence of construction and setter calls, the
\* use-limit, the TTL and the minimum size of the pool are positive.
C26_OptionsStayPositive ==
    router.pool =>
       /\ cfg.maxUseCount > 0
       /\ cfg.expireSeconds > 0
       /\ cfg.minPoolSize > 0

\* A setter was given a value that is not positive, and the pool holds it.
C26_Witness ==
    /\ router.pool
    /\ act.name = "SetMaxUseCount"
    /\ act.n <= 0
    /\ cfg.maxUseCount = act.n

\* ---------------------------------------------------------------------
\* Proxy.GetProxy
\* ---------------------------------------------------------------------

Modes == {"ModeNone", "ModeVirtual", "ModePool", "ModeAuth"}

\* SetMode, request.go lines 392-397.
SetMode(t, mode) ==
    /\ rc[t].pc = "idle"
    /\ router' = [router EXCEPT !.mode = mode]
    /\ act' = Returned("SetMode", t, "SetMode", TRUE, "nil", NoItem, 0)
    /\ UNCHANGED <<cfg, proxies, roundRobinIdx, refreshMu, poolRest>>

\* GetProxy, lines 524-539: the mode and the type are read under p.mu and
\* the call goes the way of the mode.  i counts the passes of the retry
\* loop that have failed, slept the calls of time.Sleep.
GetProxy(t) ==
    /\ rc[t].pc = "idle"
    /\ lc[t].pc = "idle"
    /\ rc[t].calls < MaxProxyCalls
    /\ rc' = [rc EXCEPT ![t] =
                [NoGetProxy EXCEPT !.pc = router.mode,
                                   !.mode = router.mode,
                                   !.proxyType = router.proxyType,
                                   !.calls = rc[t].calls + 1]]
    /\ act' = Act("GetProxy", t)
    /\ UNCHANGED <<cfg, proxies, roundRobinIdx, refreshMu, now, lc, log,
                   entryVars, singletonVars, workVars, router>>

\* GetProxy returns to its caller.
GetProxyReturn(t, ok, err, result, n) ==
    /\ rc' = [rc EXCEPT ![t] = [NoGetProxy EXCEPT !.calls = rc[t].calls]]
    /\ act' = Returned("GetProxyReturn", t, "GetProxy", ok, err, result, n)

\* getNoProxy building the pool first.
getNoProxyPooled(t) ==
    /\ rc[t].pc = "ModeNone"
    /\ initPool
    /\ router' = [router EXCEPT !.pool = TRUE]
    /\ GetProxyReturn(t, TRUE, "nil",
                      <<[Type |-> "", Proxy |-> "", Headers |-> <<>>,
                         IP |-> "direct"]>>, 0)
    /\ UNCHANGED <<now, lc, log, entryVars, singletonVars, workVars>>

\* getNoProxy, lines 556-563.
getNoProxy(t) ==
    /\ rc[t].pc = "ModeNone"
    /\ GetProxyReturn(t, TRUE, "nil",
                      <<[Type |-> "", Proxy |-> "", Headers |-> <<>>,
                         IP |-> "direct"]>>, 0)
    /\ UNCHANGED <<cfg, proxies, roundRobinIdx, refreshMu, now, lc, log,
                   entryVars, singletonVars, workVars, router>>

\* rand.Intn(n) returns a number of 0..n-1; the two ends are taken.
Intn(n) == {0, n - 1}

\* fmt.Sprintf("%d.%d.%d.%d", ...), lines 567-572.
Sprintf(o) ==
    ToString(o[1]) \o "." \o ToString(o[2]) \o "." \o ToString(o[3])
       \o "." \o ToString(o[4])

\* Addresses with every octet drawn from 0..255.
VirtualIPsAny ==
    {Sprintf(<<a, b, c, d>>) :
        a \in Intn(256), b \in Intn(256), c \in Intn(256), d \in Intn(256)}

\* The addresses getVirtualProxy may build, lines 567-572.
VirtualIPs ==
    {Sprintf(<<a + 1, b, c, d + 1>>) :
        a \in Intn(223), b \in Intn(256), c \in Intn(256), d \in Intn(254)}

\* The names of the headers of getVirtualProxy, lines 574-584.
ForwardedHeaders ==
    <<"X-Forwarded-For", "X-Real-IP", "X-Client-IP", "X-Originating-IP",
      "CF-Connecting-IP", "True-Client-IP", "X-Remote-IP", "X-Remote-Addr",
      "X-Cluster-Client-IP">>

\* getVirtualProxy, lines 566-592: every header carries the same random
\* address; IP is the address with a label after it.
getVirtualProxy(t) ==
    /\ rc[t].pc = "ModeVirtual"
    /\ \E ip \in VirtualIPs :
          GetProxyReturn(t, TRUE, "nil",
                         <<[Type |-> "", Proxy |-> "",
                            Headers |-> [i \in 1..Len(ForwardedHeaders) |->
                                           <<ForwardedHeaders[i], ip>>],
                            IP |-> ip \o " (virtual)"]>>, 0)
    /\ UNCHANGED <<cfg, proxies, roundRobinIdx, refreshMu, now, lc, log,
                   entryVars, singletonVars, workVars, router>>

\* getPoolProxy, lines 595-599: with p.mu held the pool is built if there
\* is none.
getPoolProxy(t) ==
    /\ rc[t].pc = "ModePool"
    /\ initPool
    /\ router' = [router EXCEPT !.pool = TRUE]
    /\ rc' = [rc EXCEPT ![t] = [@ EXCEPT !.pc = "get"]]
    /\ act' = Act("getPoolProxy", t)
    /\ UNCHANGED <<now, lc, log, entryVars, singletonVars, workVars>>

\* The call of GetProxy after pool.Get has taken the step that left act:
\* Get has returned an entry, has failed, or is in its synchronous Refresh.
AfterGet(r, a) ==
    IF a.ret # "Get" THEN [r EXCEPT !.pc = "getting"]
    ELSE IF a.ok THEN [r EXCEPT !.pc = "got", !.item = a.item]
    ELSE [r EXCEPT !.pc = "sleep"]

\* getPoolProxy, line 601: pool.Get().
PoolGet(t) ==
    /\ rc[t].pc = "get"
    /\ GetLocked(t)
    /\ rc' = [rc EXCEPT ![t] = AfterGet(@, act')]
    /\ UNCHANGED router

\* pool.Get() re-takes poolMu after its Refresh.
PoolGetAfterRefresh(t) ==
    /\ rc[t].pc = "getting"
    /\ GetRelocked(t)
    /\ rc' = [rc EXCEPT ![t] = AfterGet(@, act')]
    /\ UNCHANGED router

\* getPoolProxy, lines 606-612, and GetProxy, lines 545-547: the entry's
\* "ip:port" is returned.
GetPoolProxyReturn(t) ==
    /\ rc[t].pc = "got"
    /\ GetProxyReturn(t, TRUE, "nil",
                      <<[Type |-> rc[t].proxyType,
                         Proxy |-> String(rc[t].item[1]), Headers |-> <<>>,
                         IP |-> String(rc[t].item[1])]>>,
                      rc[t].i + 1)
    /\ UNCHANGED <<cfg, proxies, roundRobinIdx, refreshMu, now, lc, log,
                   entryVars, singletonVars, workVars, router>>

\* A retry loop without a bound.
SleepUnbounded(t) ==
    /\ rc[t].pc = "sleep"
    /\ now' = now + 1
    /\ rc' = [rc EXCEPT ![t] = [@ EXCEPT !.pc = "ModePool", !.i = @ + 1,
                                         !.slept = @ + 1]]
    /\ act' = [Act("Sleep", t) EXCEPT !.n = rc[t].slept + 1]
    /\ UNCHANGED <<cfg, proxies, roundRobinIdx, refreshMu, lc, log,
                   entryVars, singletonVars, workVars, router>>

\* GetProxy, lines 548-552: after a failed pass the thread sleeps for a
\* second; after maxRetry passes the loop ends and the error is returned.
Sleep(t) ==
    /\ rc[t].pc = "sleep"
    /\ now' = now + 1
    /\ IF rc[t].i + 1 < maxRetry
       THEN /\ rc' = [rc EXCEPT ![t] = [@ EXCEPT !.pc = "ModePool",
                                                 !.i = @ + 1,
                                                 !.slept = @ + 1]]
            /\ act' = [Act("Sleep", t) EXCEPT !.n = rc[t].slept + 1]
       ELSE /\ rc' = [rc EXCEPT ![t] =
                        [NoGetProxy EXCEPT !.calls = rc[t].calls]]
            /\ act' = Returned("Sleep", t, "GetProxy", FALSE,
                               "ErrRetriesExhausted", NoItem, rc[t].i + 1)
    /\ UNCHANGED <<cfg, proxies, roundRobinIdx, refreshMu, lc, log,
                   entryVars, singletonVars, workVars, router>>

\* A Proxy in pool mode whose pool options were set before the pool is
\* built; one thread calls GetProxy, the other adds entries to the pool
\* once there is one.
InitRetry ==
    /\ InitPool(ZeroConfig)
    /\ proxies = <<>>
    /\ roundRobinIdx = 0
    /\ log = NoLog
    /\ NoCallers
    /\ NoDefault
    /\ NoWork
    /\ router = [NewProxy EXCEPT !.mode = "ModePool",
                                 !.poolMaxUseCount = MaxLimit,
                                 !.poolExpireSeconds = MaxTTL,
                                 !.poolMinSize = MinSize]
    /\ rc = [t \in Threads |-> NoGetProxy]

\* AddProxy on the pool that GetPool returned.
AddProxyPooled(t) == router.pool /\ AddProxyCall(t)

\* The steps of thread or goroutine a inside GetProxy, Get and Refresh.
RetryStep(a) ==
    \/ /\ a \in Threads
       /\ \/ getPoolProxy(a)
          \/ PoolGet(a)
          \/ PoolGetAfterRefresh(a)
          \/ GetPoolProxyReturn(a)
          \/ Sleep(a)
    \/ RefreshStart(a)
    \/ FetchReturn(a)
    \/ RefreshAdd(a)

NextRetry ==
    \/ Tick
    \/ GetProxy("t1")
    \/ AddProxyPooled("t2")
    \/ \E t \in Threads :
          \/ getPoolProxy(t)
          \/ PoolGet(t)
          \/ PoolGetAfterRefresh(t)
          \/ GetPoolProxyReturn(t)
          \/ Sleep(t)
    \/ \E a \in Agents :
          \/ RefreshStart(a)
          \/ FetchReturn(a)
          \/ RefreshAdd(a)

\* Every thread and goroutine that can take a step does, and the supplier
\* returns.
SpecRetry ==
    /\ InitRetry
    /\ [][NextRetry]_vars
    /\ \A a \in Agents : WF_vars(RetryStep(a))

Continue(a) ==
    \/ RefreshStart(a)
    \/ FetchReturn(a)
    \/ RefreshAdd(a)
    \/ /\ a \in Threads
       /\ \/ GetAfterRefresh(a)
          \/ GetStatsLoop(a)
          \/ GetStatsReturn(a)

\* A thread or goroutine has called poolMu.Lock() inside Get or Refresh
\* and waits for it.
WriterWaiting ==
    \E a \in Agents :
       \/ lc[a].pc = "relock"
       \/ lc[a].pc = "add" /\ lc[a].batch # <<>>

\* A reader that passes a waiting writer.
GetStatsBarging(t) == GetStatsEnter(t)

\* GetStats, line 350: RLock() waits while a reader holds poolMu and a
\* writer waits for it (sync.RWMutex lets no new reader pass a waiting
\* writer).
GetStatsQueued(t) == ~(ReadLocked /\ WriterWaiting) /\ GetStatsEnter(t)

\* Thread t1 acquires, refreshes and asks for the sizes, thread t2 adds,
\* removes and compacts, both read the statistics, and the goroutine runs
\* the asynchronous refresh.  The clock stands still: entries leave the
\* pool by being used up.
NextLive ==
    \/ GetCall("t1")
    \/ GetAfterRefresh("t1")
    \/ Refresh("t1")
    \/ SizeCall("t1")
    \/ AvailableCountCall("t1")
    \/ AddProxyCall("t2")
    \/ RemoveCall("t2")
    \/ Cleanup("t2")
    \/ \E t \in Threads :
          \/ GetStatsQueued(t)
          \/ GetStatsLoop(t)
          \/ GetStatsReturn(t)
    \/ \E a \in Agents :
          \/ RefreshStart(a)
          \/ FetchReturn(a)
          \/ RefreshAdd(a)

\* The pool of Spec, with the readers.  A thread or goroutine inside a
\* call goes on: the supplier returns, and a thread that waits for poolMu
\* gets it (a waiting writer keeps new readers out).
SpecLive ==
    /\ Init
    /\ [][NextLive]_vars
    /\ \A a \in Agents : SF_vars(Continue(a))

\* C27: every call that has begun returns: no thread or goroutine stays
\* for ever inside Get, Refresh or GetStats, waiting for poolMu, for
\* refreshMu or for the supplier; and a Get that finds an entry that is
\* neither expired nor used up returns in the step that holds poolMu,
\* without calling Refresh.
C27_EveryCallReturns ==
    /\ \A a \in Agents : (lc[a].pc # "idle") ~> (lc[a].pc = "idle")
    /\ [][\A t \in Threads :
            (act'.name = "Get" /\ act'.who = t
                /\ Survivors(proxies, now) # <<>>)
            => (act'.ret = "Get" /\ lc'[t].pc = "idle")]_vars

\* C27 as stated: the same with "a non-empty pool" for the Get that does
\* not wait.  A pool that holds only used-up entries is not empty, and
\* Get compacts it to empty and calls Refresh.
C27_NonEmptyNeverWaits ==
    /\ \A a \in Agents : (lc[a].pc # "idle") ~> (lc[a].pc = "idle")
    /\ [][\A t \in Threads :
            (act'.name = "Get" /\ act'.who = t /\ Len(proxies) > 0)
            => (act'.ret = "Get" /\ lc'[t].pc = "idle")]_vars

\* C27 witness: t1 waits inside Get for poolMu after its Refresh, while t2
\* reads the statistics of a pool that holds an entry.
C27_Witness ==
    /\ lc["t1"].pc = "relock"
    /\ lc["t2"].pc = "stats"
    /\ Len(proxies) > 0

\* ---------------------------------------------------------------------
\* Get on an empty pool while a refresh is in flight
\* ---------------------------------------------------------------------

\* C28: the Refresh that Get calls on an empty pool while another agent
\* is inside Refresh past the TryLock returns in that step, without a
\* supplier call, leaving refreshMu, the collection and the other agents
\* as they are, and Get goes on to re-take poolMu; a Get that re-takes
\* poolMu and finds the collection empty returns ErrNoAvailableProxy and
\* no entry.
C28_GetSkipsRefreshInFlight ==
    /\ [][\A t \in Threads :
            (/\ act'.name = "RefreshStart"
             /\ act'.who = t
             /\ lc[t].op = "Get"
             /\ InFlight \ {t} # {}) =>
                /\ lc'[t].pc = "relock"
                /\ \A a \in Agents \ {t} : lc'[a] = lc[a]
                /\ refreshMu' = refreshMu
                /\ proxies' = proxies]_vars
    /\ [][\A t \in Threads :
            (/\ act'.name = "GetAfterRefresh"
             /\ act'.who = t
             /\ proxies = <<>>) =>
                /\ act'.err = "ErrNoAvailableProxy"
                /\ ~act'.ok
                /\ act'.item = NoItem
                /\ proxies' = <<>>
                /\ lc'[t].pc = "idle"]_vars

\* C28 witness: a Get has returned ErrNoAvailableProxy from the empty
\* collection while the supplier call of another agent's Refresh is still
\* in progress.
C28_Witness ==
    /\ act.name = "GetAfterRefresh"
    /\ act.err = "ErrNoAvailableProxy"
    /\ proxies = <<>>
    /\ \E a \in Agents : lc[a].pc = "fetch"

\* ---------------------------------------------------------------------
\* The modes of Proxy
\* ---------------------------------------------------------------------

\* The parts joined with ':', as the caller of SetAuthProxy writes them
\* and as fmt.Sprintf("%s:%s...") in getAuthProxy does.
RECURSIVE Join(_)
Join(parts) ==
    IF Len(parts) = 0 THEN <<>>
    ELSE IF Len(parts) = 1 THEN parts[1]
    ELSE parts[1] \o <<":">> \o Join(Tail(parts))

\* splitAuthProxy, request.go lines 498-519: the loop over the bytes of s
\* from index i (counted from 1), with the start of the current part, the
\* number of separators seen and the parts cut so far; it ends at the end
\* of s or after the fourth separator, and what is left is one more part.
RECURSIVE splitLoop(_, _, _, _, _)
splitLoop(s, i, start, count, result) ==
    IF i <= Len(s) /\ count < 4
    THEN IF s[i] = ":"
         THEN splitLoop(s, i + 1, i + 1, count + 1,
                        Append(result, SubSeq(s, start, i - 1)))
         ELSE splitLoop(s, i + 1, start, count, result)
    ELSE IF start <= Len(s)
         THEN Append(result, SubSeq(s, start, Len(s)))
         ELSE result

splitAuthProxy(s) == splitLoop(s, 1, 1, 0, <<>>)

\* SetAuthProxy, request.go lines 478-495, with p.mu held.  The argument
\* of the last call is kept for the record.
SetAuthProxy(t, authStr) ==
    /\ rc[t].pc = "idle"
    /\ LET parts == splitAuthProxy(authStr)
           hosted == IF Len(parts) >= 2
                     THEN [router EXCEPT !.authHost = parts[1],
                                         !.authPort = parts[2]]
                     ELSE router
       IN  router' = IF Len(parts) >= 4
                     THEN [hosted EXCEPT !.authUsername = parts[3],
                                         !.authPassword = parts[4]]
                     ELSE [hosted EXCEPT !.authUsername = <<>>,
                                         !.authPassword = <<>>]
    /\ act' = Returned("SetAuthProxy", t, "SetAuthProxy", TRUE, "nil",
                       <<authStr>>, 0)
    /\ log' = [log EXCEPT !.auth = authStr]
    /\ UNCHANGED <<cfg, proxies, roundRobinIdx, refreshMu, now, lc,
                   entryVars, singletonVars, workVars, rc>>

\* getAuthProxy, request.go lines 616-643: the four fields are read with
\* p.mu held.
getAuthProxy(t) ==
    /\ rc[t].pc = "ModeAuth"
    /\ LET host == router.authHost
           port == router.authPort
           username == router.authUsername
           password == router.authPassword
       IN  IF host = <<>> \/ port = <<>>
           THEN GetProxyReturn(t, FALSE, "ErrAuthNotConfigured", NoItem, 0)
           ELSE GetProxyReturn(t, TRUE, "nil",
                   <<[Type |-> rc[t].proxyType,
                      Proxy |-> IF username # <<>> /\ password # <<>>
                                THEN Join(<<host, port, username, password>>)
                                ELSE Join(<<host, port>>),
                      Headers |-> <<>>,
                      IP |-> Join(<<host, port>>)]>>, 0)
    /\ UNCHANGED <<cfg, proxies, roundRobinIdx, refreshMu, now, lc, log,
                   entryVars, singletonVars, workVars, router>>

\* The endpoint "a:b", without credentials.
HostPort == <<"a", ":", "b">>

\* A new Proxy whose pool options were set before the pool is built.
InitModes ==
    /\ InitPool(ZeroConfig)
    /\ proxies = <<>>
    /\ roundRobinIdx = 0
    /\ log = NoLog
    /\ NoCallers
    /\ NoDefault
    /\ NoWork
    /\ router = [NewProxy EXCEPT !.poolMaxUseCount = MaxLimit,
                                 !.poolExpireSeconds = MaxTTL,
                                 !.poolMinSize = MinSize]
    /\ rc = [t \in Threads |-> NoGetProxy]

\* Thread t1 calls GetProxy; thread t2 sets the mode and the credentialed
\* endpoint, asks for the pool and adds entries to it once there is one.
NextModes ==
    \/ Tick
    \/ GetProxy("t1")
    \/ \E mode \in Modes : SetMode("t2", mode)
    \/ SetAuthProxy("t2", HostPort)
    \/ GetPool("t2")
    \/ AddProxyPooled("t2")
    \/ \E t \in Threads :
          \/ getNoProxy(t)
          \/ getVirtualProxy(t)
          \/ getAuthProxy(t)
          \/ getPoolProxy(t)
          \/ PoolGet(t)
          \/ PoolGetAfterRefresh(t)
          \/ GetPoolProxyReturn(t)
          \/ Sleep(t)
    \/ \E a \in Agents :
          \/ RefreshStart(a)
          \/ FetchReturn(a)
          \/ RefreshAdd(a)

SpecModes == InitModes /\ [][NextModes]_vars

\* The variables of the pool are as they were.
PoolUntouched ==
    UNCHANGED <<cfg, proxies, roundRobinIdx, refreshMu, now, lc, log>>

\* C29: the mode changes in steps of SetMode only.  A call of GetProxy
\* that read a mode other than ModePool returns in its second step, and
\* neither step builds the pool, changes it, starts a Refresh or a supplier
\* call, or sleeps.  In ModeNone the result has an empty type, an empty
\* proxy and no headers.  A step of pool.Get is taken only by a call that
\* read ModePool.
C29_ModesAreApart ==
    /\ [][router'.mode # router.mode => act'.name = "SetMode"]_vars
    /\ [][\A t \in Threads :
            (rc'[t] # rc[t] /\ rc'[t].mode # "ModePool"
                /\ rc[t].mode # "ModePool") =>
               /\ PoolUntouched
               /\ router' = router
               /\ act'.name # "Sleep"
               /\ rc[t].pc # "idle" =>
                     (rc'[t].pc = "idle" /\ act'.ret = "GetProxy")]_vars
    /\ [][(act'.ret = "GetProxy" /\ rc[act'.who].mode = "ModeNone") =>
             /\ act'.ok
             /\ act'.item[1].Type = ""
             /\ act'.item[1].Proxy = ""
             /\ act'.item[1].Headers = <<>>]_vars
    /\ [][act'.ret = "Get" \/ act'.name \in {"Get", "GetAfterRefresh"} =>
             rc[act'.who].mode = "ModePool"]_vars

\* C29 witness: GetProxy has returned the result of ModeNone from a Proxy
\* whose pool is built and holds an entry.
C29_Witness ==
    /\ act.ret = "GetProxy"
    /\ act.item # NoItem
    /\ act.item[1].IP = "direct"
    /\ router.pool
    /\ Len(proxies) > 0

\* ---------------------------------------------------------------------
\* The credentialed endpoint
\* ---------------------------------------------------------------------

\* Hosts, ports and user names: strings without ':'.
Names == {<<"a">>, <<"b">>}

\* Passwords: the non-empty strings over a, b and ':'.
Passwords == SeqsUpTo({"a", "b", ":"}, MaxPassword) \ {<<>>}

\* What SetAuthProxy is given: "host:port:user:pass", "host:port", and
\* strings of fewer than two parts.
AuthStrings ==
    {Join(<<h, p, u, pw>>) : h \in {<<"a">>}, p \in Names, u \in Names,
                             pw \in Passwords}
       \cup {Join(<<h, p>>) : h \in Names, p \in Names}
       \cup {<<>>, <<"a">>}

\* A new Proxy after SetMode(ModeAuth).
InitAuth ==
    /\ InitPool(ZeroConfig)
    /\ proxies = <<>>
    /\ roundRobinIdx = 0
    /\ log = NoLog
    /\ NoCallers
    /\ NoDefault
    /\ NoWork
    /\ router = [NewProxy EXCEPT !.mode = "ModeAuth"]
    /\ rc = [t \in Threads |-> NoGetProxy]

\* Thread t2 sets the endpoint, thread t1 calls GetProxy.
NextAuth ==
    \/ \E authStr \in AuthStrings : SetAuthProxy("t2", authStr)
    \/ GetProxy("t1")
    \/ getAuthProxy("t1")

SpecAuth == InitAuth /\ [][NextAuth]_vars

\* C30: GetProxy in ModeAuth returns, for the last SetAuthProxy(s): with
\* s = "host:port:user:pass", s as the proxy and "host:port" as the IP,
\* whatever the password; with s = "host:port", s as the proxy and as the
\* IP; and an error when no host or no port is set.
C30_AuthRoundTrip ==
    [][(act'.ret = "GetProxy" /\ rc[act'.who].mode = "ModeAuth") =>
          /\ \A h, p, u \in Names, pw \in Passwords :
                log.auth = Join(<<h, p, u, pw>>) =>
                   /\ act'.ok
                   /\ act'.item[1].Proxy = log.auth
                   /\ act'.item[1].IP = Join(<<h, p>>)
          /\ \A h, p \in Names :
                log.auth = Join(<<h, p>>) =>
                   /\ act'.ok
                   /\ act'.item[1].Proxy = log.auth
                   /\ act'.item[1].IP = log.auth
          /\ (router.authHost = <<>> \/ router.authPort = <<>>) =>
                ~act'.ok]_vars

\* C30 witness: after SetAuthProxy("a:b:a:a:b") GetProxy has returned the
\* proxy "a:b:a:a".
C30_Witness ==
    /\ act.ret = "GetProxy"
    /\ act.ok
    /\ log.auth = Join(<<<<"a">>, <<"b">>, <<"a">>, <<"a", ":", "b">>>>)
    /\ act.item[1].Proxy = <<"a", ":", "b", ":", "a", ":", "a">>

\* ---------------------------------------------------------------------
\* The claim inside Get
\* ---------------------------------------------------------------------

\* C31: with the use-counts advanced by Get only, a Get that returns
\* ErrNoAvailableProxy found no entry that is neither expired nor used up
\* when it selected, and a Get that found one returns it with one more
\* use: the IncrementUseCount inside Get does not fail.
C31_ClaimInsideGetNeverFails ==
    [][act'.ret = "Get" =>
          IF Survivors(proxies, now) = <<>>
          THEN act'.err = "ErrNoAvailableProxy"
          ELSE /\ act'.ok
               /\ \E i \in 1..Len(Survivors(proxies, now)) :
                     /\ String(act'.item[1])
                           = String(Survivors(proxies, now)[i])
                     /\ act'.item[1].usedCount
                           = Survivors(proxies, now)[i].usedCount + 1]_vars

\* C31 witness: a Get has returned ErrNoAvailableProxy from a collection
\* that holds an entry, while another thread or goroutine is inside a
\* call.
C31_Witness ==
    /\ act.ret = "Get"
    /\ act.err = "ErrNoAvailableProxy"
    /\ Len(proxies) > 0
    /\ \E a \in Agents : a # act.who /\ lc[a].pc # "idle"

\* ---------------------------------------------------------------------
\* onProxyGet under poolMu
\* ---------------------------------------------------------------------

\* Get's deferred Unlock as if it ran before onProxyGet is called.
InCallbackNever == FALSE

\* A thread is inside onProxyGet (pc "callback"), or inside a call of the
\* pool that onProxyGet made (pc "stuck"): Get, line 236, is between
\* poolMu.Lock() and the deferred Unlock of line 215.
InCallback == \E t \in Threads : lc[t].pc \in {"callback", "stuck"}

\* The collection Get selects from: after the cleanup of line 203 when the
\* call starts, as it is when Get re-takes poolMu after its Refresh.
Selectable(t) ==
    IF lc[t].pc = "relock" THEN proxies ELSE cleanupUnsafe(proxies)

\* Get will call onProxyGet: it does not leave for Refresh, the claim
\* succeeds and a callback is set.
CallsBack(t) ==
    /\ cfg.onProxyGet
    /\ lc[t].pc = "idle" => Len(Selectable(t)) > 0
    /\ GetSelect(Selectable(t), roundRobinIdx).err = "nil"

\* Get, lines 199-236, up to the call of onProxyGet; the entry is kept in
\* the thread's field all.
GetCallsBack(t) ==
    /\ lc[t].pc \in {"idle", "relock"}
    /\ roundRobinIdx < MaxCursor
    /\ ~ReadLocked
    /\ ~InCallback
    /\ CallsBack(t)
    /\ LET ps == Selectable(t)
           s == GetSelect(ps, roundRobinIdx)
           inside == [Idle EXCEPT !.pc = "callback", !.op = "Get",
                                  !.all = s.item]
       IN  /\ proxies' = s.proxies
           /\ roundRobinIdx' = s.idx
           /\ act' = [Act("GetCallsBack", t) EXCEPT !.got = s.item]
           /\ IF lc[t].pc = "idle" /\ NeedsAsync(ps)
              THEN /\ \E g \in Goroutines : lc[g].pc = "idle"
                   /\ lc' = [lc EXCEPT ![t] = inside,
                                       ![FreeGoroutine] =
                                          [Idle EXCEPT !.pc = "refresh",
                                                       !.op = "go"]]
              ELSE lc' = [lc EXCEPT ![t] = inside]
    /\ UNCHANGED <<refreshMu, cfg, now, log, entryVars, singletonVars, workVars,
                   routerVars>>

\* Get, lines 236-238 and the deferred Unlock: onProxyGet has returned.
CallbackReturn(t) ==
    /\ lc[t].pc = "callback"
    /\ lc' = [lc EXCEPT ![t] = Idle]
    /\ act' = [Returned("CallbackReturn", t, "Get", TRUE, "nil",
                        lc[t].all, 0) EXCEPT !.got = lc[t].all]
    /\ UNCHANGED <<proxies, roundRobinIdx, refreshMu, cfg, now, log,
                   entryVars, singletonVars, workVars, routerVars>>

\* The calls of the pool that take poolMu.
LockingCalls ==
    {"Get", "AddProxy", "Remove", "Cleanup", "Size", "AvailableCount",
     "GetStats"}

\* onProxyGet calls the pool: the call waits for poolMu, which its own
\* thread holds.
CallbackCalls(t) ==
    /\ lc[t].pc = "callback"
    /\ \E op \in LockingCalls :
          lc' = [lc EXCEPT ![t] = [@ EXCEPT !.pc = "stuck", !.op = op]]
    /\ act' = Act("CallbackCalls", t)
    /\ UNCHANGED <<proxies, roundRobinIdx, refreshMu, cfg, now, log,
                   entryVars, singletonVars, workVars, routerVars>>

\* The calls of the other threads and of the goroutines, which wait for
\* poolMu while a thread is inside onProxyGet.
GetNoCallback(t) == ~InCallback /\ ~CallsBack(t) /\ GetCall(t)
GetAfterRefreshNoCallback(t) ==
    ~InCallback /\ ~CallsBack(t) /\ GetAfterRefresh(t)
AddProxyOutside(t) == ~InCallback /\ AddProxyCall(t)
RemoveOutside(t) == ~InCallback /\ RemoveCall(t)
CleanupOutside(t) == ~InCallback /\ Cleanup(t)
SizeOutside(t) == ~InCallback /\ SizeCall(t)
AvailableCountOutside(t) == ~InCallback /\ AvailableCountCall(t)
GetStatsOutside(t) == ~InCallback /\ GetStatsEnter(t)
RefreshAddOutside(a) ==
    (lc[a].batch # <<>> => ~InCallback) /\ RefreshAdd(a)

NextCallback ==
    \/ Tick
    \/ \E t \in Threads :
          \/ GetCallsBack(t)
          \/ CallbackReturn(t)
          \/ CallbackCalls(t)
          \/ GetNoCallback(t)
          \/ GetAfterRefreshNoCallback(t)
          \/ AddProxyOutside(t)
          \/ RemoveOutside(t)
          \/ CleanupOutside(t)
          \/ SizeOutside(t)
          \/ AvailableCountOutside(t)
          \/ GetStatsOutside(t)
          \/ GetStatsLoop(t)
          \/ GetStatsReturn(t)
    \/ \E a \in Agents :
          \/ RefreshStart(a)
          \/ FetchReturn(a)
          \/ RefreshAddOutside(a)

\* The pool of Spec, whose onProxyGet is set, with the call of onProxyGet
\* as a step of its own.
SpecCallback == Init /\ [][NextCallback]_vars

\* C32: from the call of onProxyGet to its return no Get, AddProxy,
\* Remove, Cleanup, Size, AvailableCount or GetStats of another thread
\* returns and the collection and the cursor stay as they are; and a
\* thread whose onProxyGet has called one of these stays inside that call
\* for ever.
C32_CallbackHoldsPoolMu ==
    /\ [][(\E t \in Threads : lc[t].pc \in {"callback", "stuck"}) =>
             /\ act'.ret \in LockingCalls =>
                   (act'.name = "CallbackReturn" /\ lc[act'.who].pc = "callback")
             /\ proxies' = proxies
             /\ roundRobinIdx' = roundRobinIdx]_vars
    /\ [][\A t \in Threads :
             lc[t].pc = "stuck" => lc'[t].pc = "stuck"]_vars

\* C32 witness: a thread is inside the call its onProxyGet made, a second
\* thread waits inside Get for poolMu and a goroutine waits for it to add
\* an entry.
C32_Witness ==
    /\ lc["t1"].pc = "stuck"
    /\ lc["t2"].pc = "relock"
    /\ \E g \in Goroutines : lc[g].pc = "add" /\ lc[g].batch # <<>>

\* ---------------------------------------------------------------------
\* The three counts of GetStats
\* ---------------------------------------------------------------------

\* C33: in every result of GetStats the three counts cover the total:
\* Available + Expired + MaxUsed >= Total, and Available = Total when
\* Expired and MaxUsed are 0.
C33_CountsCoverTotal ==
    [][act'.ret = "GetStats" =>
          LET s == act'.item[1]
          IN  /\ s.Available + s.Expired + s.MaxUsed >= s.Total
              /\ (s.Expired = 0 /\ s.MaxUsed = 0) =>
                    s.Available = s.Total]_vars

\* C33 witness: GetStats has returned Total 1 with the three counts 0: the
\* clock reads the expiry instant of the only entry, whose uses are not
\* used up.
C33_Witness ==
    /\ act.ret = "GetStats"
    /\ act.item[1] = [Total |-> 1, Available |-> 0, Expired |-> 0,
                      MaxUsed |-> 0]
    /\ Len(proxies) = 1
    /\ proxies[1].expireTime = now
    /\ proxies[1].usedCount < proxies[1].maxUseCount

\* ---------------------------------------------------------------------
\* The worker Pool
\* ---------------------------------------------------------------------

\* The goroutine that submits or runs task k.
TaskName(k) == "k" \o ToString(k)

\* What the steps of the worker Pool leave alone.
workRest ==
    <<proxies, roundRobinIdx, refreshMu, cfg, now, lc, log, entryVars,
      singletonVars, routerVars, hc>>

\* The dispatcher holds workerMu: from Lock (line 451) to Wait or Unlock.
DispatcherLocked == wp.dispatcher.pc \in {"check", "park", "admit"}

\* A Signal that wakes nobody.
WokenNever(d) == d

\* workerCond.Signal() and Broadcast(): the dispatcher, the only waiter,
\* is woken if it is in Wait.
Woken(d) == IF d.pc = "parked" THEN [d EXCEPT !.pc = "woken"] ELSE d

\* Submit, lines 485-488: the load of stopped.
SubmitLoad(k) ==
    /\ wp.task[k].pc = "new"
    /\ wp' = [wp EXCEPT !.task[k] =
                [@ EXCEPT !.pc = IF wp.stopped THEN "rejected" ELSE "send",
                          !.afterStop = wp.stopReturned]]
    /\ act' = IF wp.stopped
              THEN Returned("SubmitLoad", TaskName(k), "Submit", FALSE, "nil", NoItem, 0)
              ELSE Act("SubmitLoad", TaskName(k))
    /\ UNCHANGED workRest

\* Submit, lines 490-495: the select between the send to taskQueue and
\* ctx.Done(); when both are ready either is taken.
SubmitSend(k) ==
    /\ wp.task[k].pc = "send"
    /\ \/ /\ Len(wp.taskQueue) < QueueCap
          /\ wp' = [wp EXCEPT !.taskQueue = Append(@, k),
                              !.task[k] = [@ EXCEPT !.pc = "queued",
                                                    !.accepted = TRUE]]
          /\ act' = Returned("SubmitSend", TaskName(k), "Submit", TRUE, "nil",
                             NoItem, 0)
       \/ /\ wp.cancelled
          /\ wp' = [wp EXCEPT !.task[k] = [@ EXCEPT !.pc = "rejected"]]
          /\ act' = Returned("SubmitSend", TaskName(k), "Submit", FALSE, "nil",
                             NoItem, 0)
    /\ UNCHANGED workRest

\* dispatcher, lines 442-449: the select between ctx.Done() and the
\* receive from taskQueue; when both are ready either is taken.
DispatcherSelect ==
    /\ wp.dispatcher.pc = "select"
    /\ \/ /\ wp.cancelled
          /\ wp' = [wp EXCEPT !.dispatcher = [pc |-> "exit", task |-> 0]]
       \/ /\ wp.taskQueue # <<>>
          /\ wp' = [wp EXCEPT
                      !.taskQueue = Tail(@),
                      !.dispatcher = [pc |-> "lock",
                                      task |-> Head(wp.taskQueue)],
                      !.task[Head(wp.taskQueue)] =
                         [@ EXCEPT !.pc = "held",
                                   !.lateTake = wp.stopReturned]]
    /\ act' = Act("DispatcherSelect", "dispatcher")
    /\ UNCHANGED workRest

\* dispatcher, line 451: workerMu.Lock().
DispatcherLock ==
    /\ wp.dispatcher.pc = "lock"
    /\ wp' = [wp EXCEPT !.dispatcher.pc = "check"]
    /\ act' = Act("DispatcherLock", "dispatcher")
    /\ UNCHANGED workRest

\* dispatcher, line 452: the loop condition.
SlotTaken == wp.activeCount >= wp.maxWorkers

\* dispatcher, line 452, with workerMu held: the test of the loop.
DispatcherCheck ==
    /\ wp.dispatcher.pc = "check"
    /\ wp' = [wp EXCEPT !.dispatcher.pc =
                          IF SlotTaken THEN "park" ELSE "admit"]
    /\ act' = Act("DispatcherCheck", "dispatcher")
    /\ UNCHANGED workRest

\* dispatcher, line 453: workerCond.Wait() puts the dispatcher on the
\* waiters' list and releases workerMu.
DispatcherPark ==
    /\ wp.dispatcher.pc = "park"
    /\ wp' = [wp EXCEPT !.dispatcher.pc = "parked"]
    /\ act' = Act("DispatcherPark", "dispatcher")
    /\ UNCHANGED workRest

\* dispatcher, lines 453-457: Wait() returns with workerMu held; with
\* stopped set the dispatcher releases it and returns, and the task it
\* had received is dropped.
DispatcherWake ==
    /\ wp.dispatcher.pc = "woken"
    /\ wp' = IF wp.stopped
             THEN [wp EXCEPT !.dispatcher = [pc |-> "exit", task |-> 0],
                             !.task[wp.dispatcher.task] =
                                [@ EXCEPT !.pc = "dropped"]]
             ELSE [wp EXCEPT !.dispatcher.pc = "check"]
    /\ act' = Act("DispatcherWake", "dispatcher")
    /\ UNCHANGED workRest

\* dispatcher, lines 459-460: activeCount is incremented and workerMu
\* released.
DispatcherAdmit ==
    /\ wp.dispatcher.pc = "admit"
    /\ wp' = [wp EXCEPT !.activeCount = @ + 1, !.dispatcher.pc = "start"]
    /\ act' = Act("DispatcherAdmit", "dispatcher")
    /\ UNCHANGED workRest

\* dispatcher, line 463: go p.runWorker(task).
DispatcherStart ==
    /\ wp.dispatcher.pc = "start"
    /\ wp' = [wp EXCEPT !.dispatcher = [pc |-> "select", task |-> 0],
                        !.task[wp.dispatcher.task] =
                           [@ EXCEPT !.pc = "running",
                                     !.late = wp.stopReturned]]
    /\ act' = Act("DispatcherStart", "dispatcher")
    /\ UNCHANGED workRest

\* runWorker, lines 477-481: the task is executed; it returns or panics,
\* and a panic is recovered.
TaskRun(k) ==
    /\ wp.task[k].pc = "running"
    /\ \E panics \in BOOLEAN :
          /\ wp' = [wp EXCEPT !.task[k] = [@ EXCEPT !.pc = "ran",
                                                    !.runs = @ + 1,
                                                    !.panicked = panics]]
          /\ act' = [Act("TaskRun", TaskName(k)) EXCEPT
                        !.err = IF panics THEN "panic" ELSE "nil"]
    /\ UNCHANGED workRest

\* A worker that a panic of its task ends before it gives its slot back.
TaskExitKeeps(k) ==
    /\ wp.task[k].pc = "ran"
    /\ ~DispatcherLocked
    /\ wp' = IF wp.task[k].panicked
             THEN [wp EXCEPT !.task[k] = [@ EXCEPT !.pc = "done"]]
             ELSE [wp EXCEPT !.activeCount = @ - 1,
                             !.dispatcher = Woken(@),
                             !.task[k] = [@ EXCEPT !.pc = "done"]]
    /\ act' = Returned("TaskExit", TaskName(k), "runWorker", TRUE, "nil", NoItem,
                       wp.activeCount)
    /\ UNCHANGED workRest

\* runWorker, lines 470-475: the deferred function, with workerMu held,
\* decrements activeCount and signals the dispatcher.
TaskExit(k) ==
    /\ wp.task[k].pc = "ran"
    /\ ~DispatcherLocked
    /\ wp' = [wp EXCEPT !.activeCount = @ - 1,
                        !.dispatcher = Woken(@),
                        !.task[k] = [@ EXCEPT !.pc = "done"]]
    /\ act' = Returned("TaskExit", TaskName(k), "runWorker", TRUE, "nil", NoItem,
                       wp.activeCount - 1)
    /\ UNCHANGED workRest

\* Resize, lines 499-505.
Resize(newSize) ==
    /\ wp' = [wp EXCEPT !.maxWorkers = IF newSize <= 0 THEN 1 ELSE newSize,
                        !.dispatcher = Woken(@),
                        !.shrunk = @ \/ newSize < wp.activeCount]
    /\ act' = Returned("Resize", "main", "Resize", TRUE, "nil", NoItem,
                       newSize)
    /\ UNCHANGED workRest

\* Stop, lines 545-547: the compare-and-swap of stopped.
StopSwap(c) ==
    /\ wp.stop[c].pc = "idle"
    /\ wp' = IF wp.stopped
             THEN [wp EXCEPT !.stop[c] = [pc |-> "returned", won |-> FALSE]]
             ELSE [wp EXCEPT !.stopped = TRUE,
                             !.stop[c] = [pc |-> "cancel", won |-> TRUE]]
    /\ act' = IF wp.stopped
              THEN Returned("StopSwap", c, "Stop", FALSE, "nil", NoItem, 0)
              ELSE Act("StopSwap", c)
    /\ UNCHANGED workRest

\* Stop, line 549: p.cancel().
StopCancel(c) ==
    /\ wp.stop[c].pc = "cancel"
    /\ wp' = [wp EXCEPT !.cancelled = TRUE, !.stop[c].pc = "broadcast"]
    /\ act' = Act("StopCancel", c)
    /\ UNCHANGED workRest

\* Stop, line 550: p.workerCond.Broadcast().
StopBroadcast(c) ==
    /\ wp.stop[c].pc = "broadcast"
    /\ wp' = [wp EXCEPT !.dispatcher = Woken(@), !.stop[c].pc = "drain"]
    /\ act' = Act("StopBroadcast", c)
    /\ UNCHANGED workRest

\* Stop, lines 553-559: one pass of the loop that empties taskQueue;
\* Stop returns when it finds it empty.
StopDrain(c) ==
    /\ wp.stop[c].pc = "drain"
    /\ IF wp.taskQueue # <<>>
       THEN /\ wp' = [wp EXCEPT !.taskQueue = Tail(@),
                                !.task[Head(wp.taskQueue)] =
                                   [@ EXCEPT !.pc = "dropped"]]
            /\ act' = Act("StopDrain", c)
       ELSE /\ wp' = [wp EXCEPT !.stop[c].pc = "returned",
                                !.stopReturned = TRUE]
            /\ act' = Returned("StopDrain", c, "Stop", TRUE, "nil",
                               NoItem, 0)
    /\ UNCHANGED workRest

\* WaitIdle, line 537, is called.
WaitIdle ==
    /\ wp.wait.pc = "idle"
    /\ wp' = [wp EXCEPT !.wait = [pc |-> "active",
                                  owed |-> {k \in Tasks :
                                              wp.task[k].accepted}]]
    /\ act' = Act("WaitIdle", "waiter")
    /\ UNCHANGED workRest

\* IsIdle, line 533: ActiveWorkers() is read.
IsIdleActive ==
    /\ wp.wait.pc = "active"
    /\ wp' = [wp EXCEPT !.wait.pc =
                          IF wp.activeCount = 0 THEN "queue" ELSE "sleep"]
    /\ act' = Act("IsIdleActive", "waiter")
    /\ UNCHANGED workRest

\* IsIdle, line 533: QueueSize() is read; WaitIdle returns when IsIdle
\* has returned true.
IsIdleQueue ==
    /\ wp.wait.pc = "queue"
    /\ IF Len(wp.taskQueue) = 0
       THEN /\ wp' = [wp EXCEPT !.wait.pc = "returned"]
            /\ act' = Returned("IsIdleQueue", "waiter", "WaitIdle", TRUE,
                               "nil", NoItem, 0)
       ELSE /\ wp' = [wp EXCEPT !.wait.pc = "sleep"]
            /\ act' = Act("IsIdleQueue", "waiter")
    /\ UNCHANGED workRest

\* WaitIdle, line 538: time.Sleep is over.
WaitIdleSleep ==
    /\ wp.wait.pc = "sleep"
    /\ wp' = [wp EXCEPT !.wait.pc = "active"]
    /\ act' = Act("WaitIdleSleep", "waiter")
    /\ UNCHANGED workRest

\* The sizes given to New and to Resize.
Sizes == 0..MaxWorkers

\* A new worker Pool, beside the untouched proxy pool.
InitTasks ==
    /\ InitPool(ZeroConfig)
    /\ proxies = <<>>
    /\ roundRobinIdx = 0
    /\ log = NoLog
    /\ NoCallers
    /\ NoDefault
    /\ NoRouter
    /\ \E n \in Sizes : wp = NewPool(n)
    /\ hc = NewClient

\* The next step of the dispatcher goroutine.
Dispatch ==
    \/ DispatcherSelect
    \/ DispatcherLock
    \/ DispatcherCheck
    \/ DispatcherPark
    \/ DispatcherWake
    \/ DispatcherAdmit
    \/ DispatcherStart

\* Submit, Resize and WaitIdle are called while the Pool works; Stop is
\* not.
NextTasks ==
    \/ DispatcherSelect
    \/ DispatcherLock
    \/ DispatcherCheck
    \/ DispatcherPark
    \/ DispatcherWake
    \/ DispatcherAdmit
    \/ DispatcherStart
    \/ \E k \in Tasks :
          \/ SubmitLoad(k)
          \/ SubmitSend(k)
          \/ TaskRun(k)
          \/ TaskExit(k)
    \/ \E newSize \in Sizes : Resize(newSize)
    \/ WaitIdle
    \/ IsIdleActive
    \/ IsIdleQueue
    \/ WaitIdleSleep

SpecTasks == InitTasks /\ [][NextTasks]_vars

\* C34: while Resize has not been called with a size below the number of
\* active workers, activeCount never exceeds maxWorkers.
C34_ActiveWithinMax == ~wp.shrunk => wp.activeCount <= wp.maxWorkers

\* C34 witness: two workers are active under a maximum of 1 that no call
\* of Resize set below the number of workers active at the call.
C34_Witness ==
    /\ ~wp.shrunk
    /\ wp.activeCount = 2
    /\ wp.maxWorkers = 1
    /\ \A k \in Tasks : wp.task[k].pc \in {"running", "ran"}

\* The goroutines are scheduled: the dispatcher takes its next step, a
\* task that was started runs and terminates, and a worker that waits for
\* workerMu gets it (sync.Mutex hands the lock to a waiter that has waited
\* long, so the dispatcher cannot take it for ever ahead of the worker).
SpecTasksFair ==
    /\ InitTasks
    /\ [][NextTasks]_vars
    /\ WF_vars(Dispatch)
    /\ \A k \in Tasks : WF_vars(TaskRun(k))
    /\ \A k \in Tasks : SF_vars(TaskExit(k))

\* C35: without Stop, every task for which Submit returned true is
\* eventually executed, its worker finishes, and no task is ever executed
\* twice.
C35_AcceptedRunsOnce ==
    /\ \A k \in Tasks :
          wp.task[k].accepted ~> (wp.task[k].pc = "done" /\ wp.task[k].runs = 1)
    /\ [](\A k \in Tasks : wp.task[k].runs <= 1)
    /\ [](\A k \in Tasks : wp.task[k].runs = 1 => wp.task[k].accepted)

\* C35 witness: under a maximum of 1 every task was accepted and executed
\* once, and the last worker has just given its slot back.
C35_Witness ==
    /\ act.name = "TaskExit"
    /\ wp.maxWorkers = 1
    /\ wp.activeCount = 0
    /\ \A k \in Tasks : /\ wp.task[k].accepted
                        /\ wp.task[k].pc = "done"
                        /\ wp.task[k].runs = 1

\* C36: when WaitIdle returns, every task that Submit had accepted before
\* WaitIdle was called has finished executing.
C36_IdleMeansFinished ==
    [][act'.ret = "WaitIdle" =>
          \A k \in wp'.wait.owed : wp'.task[k].pc \in {"ran", "done"}]_vars

\* C36 witness: WaitIdle has returned while the dispatcher holds a task,
\* accepted before the call, that is neither in taskQueue nor counted in
\* activeCount.
C36_Witness ==
    /\ act.ret = "WaitIdle"
    /\ wp.dispatcher.pc \in {"lock", "check", "admit"}
    /\ wp.dispatcher.task \in wp.wait.owed
    /\ wp.task[wp.dispatcher.task].runs = 0
    /\ wp.activeCount = 0
    /\ wp.taskQueue = <<>>

\* Stop is called, once or twice, while the Pool works.
NextStop ==
    \/ DispatcherSelect
    \/ DispatcherLock
    \/ DispatcherCheck
    \/ DispatcherPark
    \/ DispatcherWake
    \/ DispatcherAdmit
    \/ DispatcherStart
    \/ \E k \in Tasks :
          \/ SubmitLoad(k)
          \/ SubmitSend(k)
          \/ TaskRun(k)
          \/ TaskExit(k)
    \/ \E newSize \in Sizes : Resize(newSize)
    \/ \E c \in Stoppers :
          \/ StopSwap(c)
          \/ StopCancel(c)
          \/ StopBroadcast(c)
          \/ StopDrain(c)

SpecStop == InitTasks /\ [][NextStop]_vars

\* No worker is started once Stop has returned.
NoLateStart == \A k \in Tasks : ~wp.task[k].late

\* A Submit called after Stop has returned returns false.
LaterSubmitRefused ==
    \A k \in Tasks : wp.task[k].afterStop => wp.task[k].pc = "rejected"

\* A call of Stop that finds stopped set changes nothing of the Pool.
SecondStopIdle ==
    \A c \in Stoppers :
       (wp.stopped /\ wp.stop[c].pc = "idle" /\ wp'.stop[c].pc = "returned")
          => [wp' EXCEPT !.stop = wp.stop] = wp

\* C37: once Stop has returned no worker is started for a task that had
\* none, every later Submit returns false, and a second Stop has no
\* effect.
C37_StopIsFinal ==
    /\ []NoLateStart
    /\ []LaterSubmitRefused
    /\ [][SecondStopIdle]_vars

\* C37 witness: a task has run that the dispatcher received from
\* taskQueue, and started a worker for, after Stop had returned.
C37_Witness ==
    /\ wp.stopReturned
    /\ \E k \in Tasks : /\ wp.task[k].late
                        /\ wp.task[k].lateTake
                        /\ wp.task[k].pc = "ran"
                        /\ wp.task[k].runs = 1

\* The workers that hold a slot: those running a task or about to give
\* the slot back, and the one the dispatcher is about to start.
Started ==
    Cardinality({k \in Tasks : wp.task[k].pc \in {"running", "ran"}})
       + (IF wp.dispatcher.pc = "start" THEN 1 ELSE 0)

\* The worker of task k ends: it gives back one slot and wakes the
\* dispatcher if it waits.
Released(k) ==
    (wp.task[k].pc = "ran" /\ wp'.task[k].pc = "done")
       => /\ wp'.activeCount = wp.activeCount - 1
          /\ wp.dispatcher.pc = "parked" => wp'.dispatcher.pc = "woken"
          /\ wp.dispatcher.pc # "parked" => wp'.dispatcher = wp.dispatcher

\* C38: a task that panicked gives its slot back as one that returned:
\* activeCount is the number of workers started and not yet ended, and the
\* end of every worker decrements it by one and signals the dispatcher.
C38_PanicReleasesSlot ==
    /\ [](wp.activeCount = Started)
    /\ [][\A k \in Tasks : Released(k)]_vars

\* C38 witness: under a maximum of 1 the first task panicked, its worker
\* gave the slot back, and the task queued behind it was started and has
\* run.
C38_Witness ==
    /\ wp.maxWorkers = 1
    /\ ~wp.shrunk
    /\ wp.activeCount = 0
    /\ wp.task[1].panicked /\ wp.task[1].pc = "done"
    /\ wp.task[2].pc = "done" /\ wp.task[2].runs = 1

\* ---------------------------------------------------------------------
\* The HTTP Client: per-request Timeout and AllowRedirects
\* ---------------------------------------------------------------------

\* What the steps of the HTTP Client leave alone.
clientRest ==
    <<proxies, roundRobinIdx, refreshMu, cfg, now, lc, log, entryVars,
      singletonVars, routerVars, wp>>

\* No request is on its way.
Quiet == \A t \in Threads : hc.req[t].pc = "idle"

\* The options of a request: Timeout in seconds, 0 when not given, and
\* AllowRedirects, nil or a pointer to a bool.
Options ==
    [Timeout : 0..MaxSeconds, AllowRedirects : {"nil", "true", "false"}]

\* SetTimeout, part_001 lines 265-269, called between requests.
SetTimeout(t, timeout) ==
    /\ Quiet
    /\ hc.sets < MaxSets
    /\ hc' = [hc EXCEPT !.timeout = timeout, !.httpTimeout = timeout,
                        !.sets = @ + 1]
    /\ act' = Returned("SetTimeout", t, "SetTimeout", TRUE, "nil", NoItem,
                       timeout)
    /\ UNCHANGED clientRest

\* SetMaxRedirects, part_001 lines 272-281, called between requests.
SetMaxRedirects(t, maxRedirects) ==
    /\ Quiet
    /\ hc.sets < MaxSets
    /\ hc' = [hc EXCEPT !.maxRedirects = maxRedirects,
                        !.checkRedirect = [kind |-> "max",
                                           n |-> maxRedirects],
                        !.policy = [kind |-> "max", n |-> maxRedirects],
                        !.sets = @ + 1]
    /\ act' = Returned("SetMaxRedirects", t, "SetMaxRedirects", TRUE, "nil",
                       NoItem, maxRedirects)
    /\ UNCHANGED clientRest

\* doRequest, lines 258-259: the configuration is saved.
doRequestSave(t, opts) ==
    /\ hc.req[t].pc = "idle"
    /\ hc.req[t].calls < MaxRequests
    /\ hc' = [hc EXCEPT !.req[t] =
                [@ EXCEPT !.pc = "override",
                          !.opts = opts,
                          !.originalTimeout = hc.httpTimeout,
                          !.originalRedirect = hc.checkRedirect]]
    /\ act' = Act("doRequestSave", t)
    /\ UNCHANGED clientRest

\* doRequest, lines 262-270: the options of the request are written to
\* the shared httpClient.
doRequestOverride(t) ==
    /\ hc.req[t].pc = "override"
    /\ hc' = [hc EXCEPT
                !.httpTimeout = IF hc.req[t].opts.Timeout > 0
                                THEN hc.req[t].opts.Timeout ELSE @,
                !.checkRedirect = IF hc.req[t].opts.AllowRedirects = "false"
                                  THEN [kind |-> "last", n |-> 0] ELSE @,
                !.req[t].pc = "do"]
    /\ act' = Act("doRequestOverride", t)
    /\ UNCHANGED clientRest

\* doRequest, line 273: c.httpClient.Do(req) returns.
doRequestDo(t) ==
    /\ hc.req[t].pc = "do"
    /\ hc' = [hc EXCEPT !.req[t].pc = "restore"]
    /\ act' = Act("doRequestDo", t)
    /\ UNCHANGED clientRest

\* doRequest, lines 276-277: the saved configuration is written back.
doRequestRestore(t) ==
    /\ hc.req[t].pc = "restore"
    /\ hc' = [hc EXCEPT !.httpTimeout = hc.req[t].originalTimeout,
                        !.checkRedirect = hc.req[t].originalRedirect,
                        !.req[t] = [@ EXCEPT !.pc = "idle",
                                             !.calls = @ + 1]]
    /\ act' = Returned("doRequestRestore", t, "doRequest", TRUE, "nil",
                       NoItem, 0)
    /\ UNCHANGED clientRest

\* A new Client, beside the untouched pools.
InitClient ==
    /\ InitPool(ZeroConfig)
    /\ proxies = <<>>
    /\ roundRobinIdx = 0
    /\ log = NoLog
    /\ NoCallers
    /\ NoDefault
    /\ NoRouter
    /\ NoWork

\* Two threads make requests on one Client; it is configured between
\* requests.
NextClient ==
    \/ \E t \in Threads, timeout \in {20, 60} : SetTimeout(t, timeout)
    \/ \E t \in Threads, maxRedirects \in {0, 3} :
          SetMaxRedirects(t, maxRedirects)
    \/ \E t \in Threads, opts \in Options : doRequestSave(t, opts)
    \/ \E t \in Threads : doRequestOverride(t)
    \/ \E t \in Threads : doRequestDo(t)
    \/ \E t \in Threads : doRequestRestore(t)

SpecClient == InitClient /\ [][NextClient]_vars

\* C39: when every request has completed the httpClient carries the
\* configured timeout and the configured redirect policy.
C39_OverridesNeverPersist ==
    Quiet => /\ hc.httpTimeout = hc.timeout
             /\ hc.checkRedirect = hc.policy

\* C39 witness: a request with a Timeout option and one with
\* AllowRedirects false overlapped and both have completed; the httpClient
\* carries the Timeout of the first.
C39_Witness ==
    /\ Quiet
    /\ act.ret = "doRequest"
    /\ hc.sets = 0
    /\ hc.req["t1"].calls = 1
    /\ hc.req["t2"].calls = 1
    /\ hc.req["t1"].opts = [Timeout |-> 1, AllowRedirects |-> "nil"]
    /\ hc.req["t2"].opts = [Timeout |-> 0, AllowRedirects |-> "false"]
    /\ hc.httpTimeout = 1
    /\ hc.timeout = 30

\* ---------------------------------------------------------------------
\* The addresses of ModeVirtual
\* ---------------------------------------------------------------------

\* Octets at and beside the ends of the ranges.
Octets == {0, 1, 223, 224, 254, 255}

\* The addresses, among those of four such octets, with a first octet of
\* 1..223 and a last octet of 1..254.
InRange ==
    {Sprintf(<<a, b, c, d>>) :
        a \in Octets \cap (1..223), b \in Octets, c \in Octets,
        d \in Octets \cap (1..254)}

\* C40: a result of GetProxy in ModeVirtual has an empty type and an empty
\* proxy, and its nine headers all carry one address, whose first octet is
\* in 1..223, second and third in 0..255 and last in 1..254.
C40_VirtualAddressInRange ==
    [][(act'.ret = "GetProxy" /\ rc[act'.who].mode = "ModeVirtual") =>
          LET r == act'.item[1]
          IN  /\ act'.ok
              /\ r.Type = ""
              /\ r.Proxy = ""
              /\ Len(r.Headers) = 9
              /\ \E ip \in InRange :
                    /\ \A i \in 1..Len(r.Headers) : r.Headers[i][2] = ip
                    /\ r.IP = ip \o " (virtual)"
              /\ {r.Headers[i][1] : i \in 1..Len(r.Headers)} =
                    {ForwardedHeaders[i] : i \in 1..9}]_vars

\* C40 witness: GetProxy has returned, in ModeVirtual, the address with
\* the largest octets.
C40_Witness ==
    /\ act.ret = "GetProxy"
    /\ act.ok
    /\ act.item # NoItem
    /\ act.item[1].Headers # <<>>
    /\ act.item[1].Headers[1] = <<"X-Forwarded-For", "223.255.255.254">>
    /\ act.item[1].Proxy = ""

====
